---- MODULE Spec2Model ----
(***************************************************************************)
(* Model of the per-actor driver of actix-async (ContextFuture), of its    *)
(* mailbox, of the delayed-message and stream caches, and of the request   *)
(* returned by Addr::stop.  One driver poll is broken into the steps of    *)
(* poll_start / poll_running / poll_close; the program counter pc says     *)
(* where the driver is inside the current poll ("idle" = it returned       *)
(* Pending or was not polled yet).                                         *)
(***************************************************************************)
EXTENDS Integers, Sequences, FiniteSets, TLC

\* ---- bounds of the model ------------------------------------------------
MaxInputs == 3    \* inputs of a run: send / wait calls, Addr::stop calls, delayed
                  \* messages and streams scheduled, stream items produced
MaxStop == 2      \* Addr::stop calls in a run
ChanCap == 2      \* capacity of the mailbox channel
MaxQueue == 2     \* wake-queue length up to which task wakers still fire

\* ---- program constants --------------------------------------------------
YieldCap == 16

\* ---- tasks and the concurrent slab --------------------------------------
\* A task is a boxed handler future.  kind: "Ref" (Handler::handle),
\* "Mut" (Handler::handle_wait), "start" (on_start), "stop" (on_stop).
\* id is the mailbox sequence number of the message (0 for delayed and
\* stream messages and for the lifecycle hooks); started says whether the
\* future was polled at least once.
NoTask == [kind |-> "none", id |-> 0, started |-> FALSE]

Task(k, n) == [kind |-> k, id |-> n, started |-> FALSE]

\* a vacant slab entry; id holds the next free key (slab's free list)
Vacant(n) == [kind |-> "vacant", id |-> n, started |-> FALSE]

EmptySlab == [entries |-> <<>>, next |-> 1]

SlabContains(s, key) == key \in 1..Len(s.entries) /\ s.entries[key].kind # "vacant"

SlabLen(s) == Cardinality({k \in 1..Len(s.entries) : s.entries[k].kind # "vacant"})

SlabIsEmpty(s) == SlabLen(s) = 0

SlabInsert(s, task) ==
    IF s.next = Len(s.entries) + 1
    THEN [entries |-> Append(s.entries, task), next |-> s.next + 1]
    ELSE [entries |-> [s.entries EXCEPT ![s.next] = task],
          next |-> s.entries[s.next].id]

\* mutation: remove frees the lowest occupied key, whatever key is given
SlabRemoveLowest(s, key) ==
    LET low == CHOOSE j \in 1..Len(s.entries) :
                 /\ s.entries[j].kind # "vacant"
                 /\ \A l \in 1..Len(s.entries) : s.entries[l].kind # "vacant" => j <= l
    IN [entries |-> [s.entries EXCEPT ![low] = Vacant(s.next)], next |-> low]

SlabRemove(s, key) ==
    [entries |-> [s.entries EXCEPT ![key] = Vacant(s.next)], next |-> key]

\* Vec::swap_remove: the last element takes the place of the removed one
SwapRemove(v, k) ==
    IF k = Len(v) THEN SubSeq(v, 1, Len(v) - 1)
    ELSE [j \in 1..(Len(v) - 1) |-> IF j = k THEN v[Len(v)] ELSE v[j]]

\* ---- messages -----------------------------------------------------------
\* kind "Ref" / "Mut" / "State"; target is the requested ActorState of a
\* StateChange, notify the index of its confirm slot.  late (history) says
\* that a request of Addr::stop had already resolved when the message was
\* sent.
Msg(k, n, l) == [kind |-> k, id |-> n, target |-> "-", notify |-> 0, late |-> l]

StateMsg(n, tgt, r) ==
    [kind |-> "State", id |-> n, target |-> tgt, notify |-> r, late |-> FALSE]

Stops == 1..MaxStop

VARIABLES
    state,          \* ContextFuture.state: "Starting" | "Running" | "Stopping"
    act_state,      \* ContextFuture.act_state: "Running" | "StopGraceful" | "Stop"
    act_rx,         \* mailbox: [buf: sequence of messages, closed: BOOLEAN]
    queue,          \* WakeQueue: sequence of slab keys
    cache_mut,      \* TaskMut: the exclusive slot (NoTask when None)
    cache_ref,      \* TaskRef: the concurrent slab
    future_cache,   \* Vec<FutureMessage>: [kind, st: "waiting" | "elapsed" | "cancelled"]
    stream_cache,   \* Vec<StreamMessage>: [kind, st: "idle" | "avail" | "cancelled"]
    drop_notify,    \* Option<OneshotSender>: 0 when None, else a confirm slot
    extra_poll,     \* ContextFuture.extra_poll
    pc,             \* position of the driver inside its poll
    len, polled, i, extra_wake,   \* locals of poll_running
    woken,          \* the driver's outer waker was woken since its last poll
    dropped,        \* the ContextFuture was dropped
    addrAlive,      \* at least one strong Addr exists
    notify,         \* confirm slots: "none" | "held" | "sent" | "dropped"
    sreq,           \* the requests returned by Addr::stop: [st, graceful, id]; id is
                    \* the mailbox sequence number of its StateChange (0: not sent)
    ninputs,        \* inputs so far
    nsent,          \* messages that entered the mailbox so far (the last id)
    dispatched,     \* history: ids of mailbox messages taken by the driver, in order
    completed,      \* history: ids of mailbox messages whose handler completed
    ev,             \* what the last step did: [op, id, free, late]
    rq,             \* one send / wait request followed through its life (st "none":
                    \* no such request), with the clock its timeouts read
    wk              \* the lock of the wake queue and the call of an ActorWaker on
                    \* another thread: [lock, n, at, idx, enq, task]

vars == <<state, act_state, act_rx, queue, cache_mut, cache_ref, future_cache,
          stream_cache, drop_notify, extra_poll, pc, len, polled, i, extra_wake,
          woken, dropped, addrAlive, notify, sreq, ninputs, nsent,
          dispatched, completed, ev, rq, wk>>

\* what only the callers of the actor (and Drop) change
callerVars == <<addrAlive, notify, sreq, nsent, rq, wk>>

\* the steps that install an exclusive task
InstallOps == {"rx_mut", "fut_mut", "str_mut", "install_start", "install_stop"}

\* the steps that poll the mailbox, a delayed message or a stream
SourceOps == {"rx_ref", "rx_mut", "rx_state", "rx_none", "rx_pending",
              "fut_pending", "fut_none", "fut_ref", "fut_mut",
              "str_pending", "str_none", "str_ref", "str_mut"}

\* the record of a step: what it did, the mailbox id it concerned, for an
\* install or a poll of a message source whether the exclusive slot was
\* empty when the step began, and for a dispatch whether the message was
\* sent after a stop request had resolved
EvLate(op, n, l) ==
    [op |-> op, id |-> n,
     free |-> (op \in InstallOps \cup SourceOps) => (cache_mut = NoTask),
     late |-> l]

Ev(op, n) == EvLate(op, n, FALSE)

\* the results of a request
Resolved == {"Ok", "Closed", "SendTimeout", "ReceiveTimeout"}

NoReq == [st |-> "none", graceful |-> FALSE, id |-> 0]

\* the StateChange of stop request r was taken from the mailbox by the driver
Processed(r) ==
    /\ sreq[r].id # 0
    /\ \E k \in 1..Len(dispatched) : dispatched[k] = sreq[r].id

\* the driver processed the StateChange of an Addr::stop(false)
forced == \E r \in Stops : Processed(r) /\ ~sreq[r].graceful

\* ContextFuture::new, after Actor::start spawned the driver; the actor
\* state is handed in by the caller and may hold any value
\* ---- the request future: its timers and its fields --------------------------
\* the clock of the request specification advances in steps of TickSecs
\* seconds
TickSecs == 5

\* bound on the clock, in seconds
MaxTime == 15

\* bound on the durations a caller configures, in steps of the clock
MaxDur == 2

\* the durations a caller configures, in seconds
Durs == {TickSecs * k : k \in 1..MaxDur}

\* "const DEFAULT_TIMEOUT: Duration = Duration::from_secs(10)"
DEFAULT_TIMEOUT == 10

\* Option::None of timeout_response
NoSleep == [dur |-> 0, at |-> -1]

\* RuntimeService::sleep(dur) called at time t.  The Sleep of the default
\* runtime (tokio) fixes its deadline when it is created (eager); a Sleep
\* built as an async block, as in the async-std example, starts its timer
\* at its first poll (at = -1 until then)
SleepAt(dur, t, eager) == [dur |-> dur, at |-> IF eager THEN t + dur ELSE -1]

\* _MessageRequest::new: the Request state with the default send timeout
\* and no response timeout.  weak: built by a WeakAddr; fut: how far the
\* enqueue future got; slot: where the reply sender is; now: the clock.
\* History: polled, arrived (time of the move to Response), gone1 (no
\* strong Addr existed at the first poll), rearm (a timeout was configured
\* after a poll), late (the enqueue completed in a poll that found the
\* send timeout elapsed), missed (a poll in the Response state returned
\* Pending with the slot not fulfilled and the response timeout elapsed)
NewRequest(weak, eager) ==
    [st |-> "Request", out |-> "-", weak |-> weak, eager |-> eager, fut |-> "new",
     timeout |-> SleepAt(DEFAULT_TIMEOUT, 0, eager), timeout_response |-> NoSleep,
     slot |-> "caller", now |-> 0,
     polled |-> FALSE, arrived |-> -1, gone1 |-> FALSE,
     rearm |-> FALSE, late |-> FALSE, missed |-> FALSE]

\* the lock of the wake queue is free and no waker is being called on another
\* thread; the driver polls no concurrent task
NoWaker == [lock |-> "free", n |-> 0, at |-> "call", idx |-> 0, enq |-> FALSE, task |-> 0]

\* no request is followed
NoRequest == [NewRequest(FALSE, TRUE) EXCEPT !.st = "none"]

Init ==
    /\ state = "Starting"
    /\ act_state \in {"Running", "StopGraceful", "Stop"}
    /\ act_rx = [buf |-> <<>>, closed |-> FALSE]
    /\ queue = <<>>
    /\ cache_mut = NoTask
    /\ cache_ref = EmptySlab
    /\ future_cache = <<>>
    /\ stream_cache = <<>>
    /\ drop_notify = 0
    /\ extra_poll = FALSE
    /\ pc = "idle"
    /\ len = 0 /\ polled = 0 /\ i = 0 /\ extra_wake = FALSE
    /\ woken = TRUE
    /\ dropped = FALSE
    /\ addrAlive = TRUE
    /\ notify = [r \in Stops |-> "none"]
    /\ sreq = [r \in Stops |-> NoReq]
    /\ ninputs = 0
    /\ nsent = 0
    /\ dispatched = <<>>
    /\ completed = {}
    /\ ev = Ev("init", 0)
    /\ rq = NoRequest
    /\ wk = NoWaker


\* ---- what a handler future may do through its Context while it is polled
Effects == {"none", "stop", "later_Ref", "later_Mut", "stream_Ref", "stream_Mut"}

EffKind(eff) == IF eff \in {"later_Ref", "stream_Ref"} THEN "Ref" ELSE "Mut"

\* a handler may only schedule while the model's budget lasts
EffAllowed(eff) == eff \in {"none", "stop"} \/ ninputs < MaxInputs

\* Context::stop: close the channel, set the actor state
StopState(eff) == IF eff = "stop" THEN "StopGraceful" ELSE act_state

\* mutation: Context::stop leaves the channel open
StopKeepsOpen(eff) == act_rx

StopRx(eff) == IF eff = "stop" THEN [act_rx EXCEPT !.closed = TRUE] ELSE act_rx

\* Context::later pushes a FutureMessage; pre (history) says that a strong
\* Addr still existed when the message was scheduled
Later(eff) ==
    IF eff \in {"later_Ref", "later_Mut"}
    THEN Append(future_cache, [kind |-> EffKind(eff), st |-> "waiting", pre |-> addrAlive])
    ELSE future_cache

\* Context::stream / Context::interval push a StreamMessage; pre (history)
\* says that a strong Addr still existed when its pending item arrived
Stream(eff) ==
    IF eff \in {"stream_Ref", "stream_Mut"}
    THEN Append(stream_cache, [kind |-> EffKind(eff), st |-> "idle", pre |-> FALSE])
    ELSE stream_cache

Sched(eff) == IF eff \in {"none", "stop"} THEN ninputs ELSE ninputs + 1

\* what the poll of a handler future returns (a panic is PanicUnwind)
Outcomes == {"Ready", "Pending"}

\* ---- helpers of the driver ------------------------------------------------
\* mutation: resident tasks are not seen
NoCache == FALSE

\* ContextFuture::have_cache
have_cache == ~SlabIsEmpty(cache_ref) \/ cache_mut # NoTask

\* entering poll_running (first entry of a poll or a re-entry)
EnterRunning ==
    /\ pc' = "drain"
    /\ len' = SlabLen(cache_ref)
    /\ polled' = 0 /\ i' = 0 /\ extra_wake' = FALSE

ReturnPending ==
    /\ pc' = "idle"
    /\ len' = 0 /\ polled' = 0 /\ i' = 0 /\ extra_wake' = FALSE

Locals0 == len' = 0 /\ polled' = 0 /\ i' = 0 /\ extra_wake' = FALSE

Done(n) == IF n > 0 THEN completed \cup {n} ELSE completed

\* mutation: delayed messages and streams are polled in any actor state
AlwaysSources(st) == "future"

\* the step after the exclusive slot was found or became empty:
\* "if this.act_state.get() == ActorState::Running"
AfterExclusive(st) == IF st = "Running" THEN "future" ELSE "channel"

\* ---- the driver -----------------------------------------------------------
\* mutation: a driver in the Stopping phase is polled through poll_running
PollRunsInStopping ==
    /\ pc = "idle" /\ woken /\ ~dropped
    /\ woken' = FALSE
    /\ IF state = "Starting" THEN pc' = "start" /\ Locals0 ELSE EnterRunning
    /\ ev' = Ev("poll", 0)
    /\ UNCHANGED <<state, act_state, act_rx, queue, cache_mut, cache_ref, future_cache,
                   stream_cache, drop_notify, extra_poll, dropped, addrAlive, rq, wk, notify,
                   sreq, ninputs, nsent, dispatched, completed>>

\* mutation: a driver in the Starting phase is polled through poll_running
PollRunsInStarting ==
    /\ pc = "idle" /\ woken /\ ~dropped
    /\ woken' = FALSE
    /\ IF state = "Stopping" THEN pc' = "close" /\ Locals0 ELSE EnterRunning
    /\ ev' = Ev("poll", 0)
    /\ UNCHANGED <<state, act_state, act_rx, queue, cache_mut, cache_ref, future_cache,
                   stream_cache, drop_notify, extra_poll, dropped, addrAlive, rq, wk, notify,
                   sreq, ninputs, nsent, dispatched, completed>>

\* <ContextFuture as Future>::poll
Poll ==
    /\ pc = "idle" /\ woken /\ ~dropped
    /\ woken' = FALSE
    /\ CASE state = "Running" -> EnterRunning
         [] state = "Starting" -> pc' = "start" /\ Locals0
         [] state = "Stopping" -> pc' = "close" /\ Locals0
    /\ ev' = Ev("poll", 0)
    /\ UNCHANGED <<state, act_state, act_rx, queue, cache_mut, cache_ref, future_cache,
                   stream_cache, drop_notify, extra_poll, dropped, addrAlive, rq, wk, notify,
                   sreq, ninputs, nsent, dispatched, completed>>

\* poll_start, None arm: build on_start and install it
InstallStart ==
    /\ pc = "start" /\ cache_mut = NoTask
    /\ cache_mut' = Task("start", 0)
    /\ ev' = Ev("install_start", 0)
    /\ UNCHANGED <<state, act_state, act_rx, queue, cache_ref, future_cache, stream_cache,
                   drop_notify, extra_poll, pc, len, polled, i, extra_wake, woken, dropped,
                   addrAlive, rq, wk, notify, sreq, ninputs, nsent, dispatched, completed>>

\* mutation: poll_start leaves the Starting phase for Stopping
StartedStopping == "Stopping"

\* "this.state = ContextState::Running": the phase poll_start moves to
StartedState == "Running"

\* poll_start, Some arm: poll on_start; on Ready go to Running in the same poll
PollStartTask ==
    /\ pc = "start" /\ cache_mut # NoTask
    /\ \E out \in Outcomes, eff \in Effects :
        /\ EffAllowed(eff)
        /\ act_rx' = StopRx(eff)
        /\ future_cache' = Later(eff)
        /\ stream_cache' = Stream(eff)
        /\ ninputs' = Sched(eff)
        /\ CASE out = "Pending" ->
                  /\ cache_mut' = [cache_mut EXCEPT !.started = TRUE]
                  /\ act_state' = StopState(eff)
                  /\ state' = state
                  /\ ReturnPending
             [] out = "Ready" ->
                  /\ cache_mut' = NoTask
                  /\ act_state' = "Running"
                  /\ state' = StartedState
                  /\ EnterRunning
    /\ ev' = Ev("poll_start", 0)
    /\ UNCHANGED <<queue, cache_ref, drop_notify, extra_poll, woken, dropped, addrAlive, rq, wk,
                   notify, sreq, nsent, dispatched, completed>>


\* the Context calls of a handler future, when nothing else in the step
\* writes the actor state
ContextCalls(eff) ==
    /\ EffAllowed(eff)
    /\ act_state' = StopState(eff)
    /\ act_rx' = StopRx(eff)
    /\ future_cache' = Later(eff)
    /\ stream_cache' = Stream(eff)
    /\ ninputs' = Sched(eff)

\* poll_running, drain loop: the queue is empty (pop_front gave None)
DrainEnd ==
    /\ pc = "drain" /\ queue = <<>>
    /\ pc' = "excl"
    /\ Locals0
    /\ ev' = Ev("drain_end", 0)
    /\ UNCHANGED <<state, act_state, act_rx, queue, cache_mut, cache_ref, future_cache,
                   stream_cache, drop_notify, extra_poll, woken, dropped, ninputs,
                   dispatched, completed>>
    /\ UNCHANGED callerVars

\* mutation: the drain loop has no bound
NoDrainBound(n) == FALSE

\* "if polled == len { cx.waker().wake_by_ref(); break; }"
DrainBound(n) == n = len

\* mutation: the drain loop stops at its bound without waking the driver
DrainNextNoWake(n) ==
    IF DrainBound(n)
    THEN pc' = "excl" /\ woken' = woken /\ Locals0
    ELSE pc' = "drain" /\ woken' = woken /\ polled' = n /\ UNCHANGED <<len, i, extra_wake>>

\* mutation: the drain loop that stops at its bound ends the poll
DrainNextSleeps(n) ==
    IF DrainBound(n)
    THEN pc' = "idle" /\ woken' = woken /\ Locals0
    ELSE pc' = "drain" /\ woken' = woken /\ polled' = n /\ UNCHANGED <<len, i, extra_wake>>

\* the drain loop after one more popped index; n = polled + 1:
\* "if polled == len { cx.waker().wake_by_ref(); break; }"
DrainNext(n) ==
    IF DrainBound(n)
    THEN pc' = "excl" /\ woken' = TRUE /\ Locals0
    ELSE pc' = "drain" /\ woken' = woken /\ polled' = n /\ UNCHANGED <<len, i, extra_wake>>

\* poll_running, drain loop: one popped index
DrainPop ==
    /\ pc = "drain" /\ queue # <<>>
    /\ LET idx == Head(queue) IN
        /\ queue' = Tail(queue)
        /\ IF SlabContains(cache_ref, idx)
           THEN \E out \in Outcomes, eff \in Effects :
                  LET task == cache_ref.entries[idx] IN
                    /\ ContextCalls(eff)
                    /\ ev' = Ev("poll_ref", task.id)
                    /\ cache_ref' = IF out = "Ready" THEN SlabRemove(cache_ref, idx)
                                    ELSE [cache_ref EXCEPT !.entries[idx].started = TRUE]
                    /\ completed' = IF out = "Ready" THEN Done(task.id) ELSE completed
                    /\ DrainNext(polled + 1)
           ELSE /\ ev' = Ev("drain_stale", 0)
                /\ DrainNext(polled + 1)
                /\ UNCHANGED <<act_state, act_rx, future_cache, stream_cache, ninputs,
                               cache_ref, completed>>
    /\ UNCHANGED <<state, cache_mut, drop_notify, extra_poll, dropped, dispatched>>
    /\ UNCHANGED callerVars

\* mutation: the guard of the exclusive arm is missing
NeverWaits == FALSE

\* "Some(_) if !this.cache_ref.is_empty() => return Poll::Pending"
ExclusiveMustWait == ~SlabIsEmpty(cache_ref)

\* poll_running: an exclusive task is resident but concurrent tasks remain
ExclBlocked ==
    /\ pc = "excl" /\ cache_mut # NoTask /\ ExclusiveMustWait
    /\ ReturnPending
    /\ ev' = Ev("excl_blocked", 0)
    /\ UNCHANGED <<state, act_state, act_rx, queue, cache_mut, cache_ref, future_cache,
                   stream_cache, drop_notify, extra_poll, woken, dropped, ninputs,
                   dispatched, completed>>
    /\ UNCHANGED callerVars

\* mutation: a pending exclusive task does not end the poll
ExclPendingFallsThrough == pc' = AfterExclusive(act_state') /\ Locals0

\* "ready!(fut_mut.as_mut().poll(cx))": a pending exclusive task ends the poll
ExclPendingReturn == ReturnPending

\* poll_running: poll the exclusive task
ExclPoll ==
    /\ pc = "excl" /\ cache_mut # NoTask /\ ~ExclusiveMustWait
    /\ \E out \in Outcomes, eff \in Effects :
        /\ ContextCalls(eff)
        /\ CASE out = "Pending" ->
                  /\ cache_mut' = [cache_mut EXCEPT !.started = TRUE]
                  /\ ExclPendingReturn
                  /\ UNCHANGED <<extra_poll, completed>>
             [] out = "Ready" ->
                  /\ cache_mut' = NoTask
                  /\ extra_poll' = FALSE
                  /\ completed' = Done(cache_mut.id)
                  /\ pc' = AfterExclusive(StopState(eff))
                  /\ Locals0
    /\ ev' = Ev("poll_mut", cache_mut.id)
    /\ UNCHANGED <<state, queue, cache_ref, drop_notify, woken, dropped, dispatched>>
    /\ UNCHANGED callerVars

\* poll_running: the exclusive slot is empty
ExclNone ==
    /\ pc = "excl" /\ cache_mut = NoTask
    /\ extra_poll' = FALSE
    /\ pc' = AfterExclusive(act_state)
    /\ Locals0
    /\ ev' = Ev("excl_none", 0)
    /\ UNCHANGED <<state, act_state, act_rx, queue, cache_mut, cache_ref, future_cache,
                   stream_cache, drop_notify, woken, dropped, ninputs, dispatched,
                   completed>>
    /\ UNCHANGED callerVars


\* Actor::size_hint of the modelled actor: TaskRef::new pre-sizes the slab
\* with it ("Slab::with_capacity(A::size_hint())")
size_hint == 2

\* mutation: a concurrent message is refused while size_hint tasks are resident
AddWithinHint(task) ==
    /\ extra_poll' = TRUE
    /\ cache_ref' = IF SlabLen(cache_ref) >= size_hint THEN cache_ref
                    ELSE SlabInsert(cache_ref, task)
    /\ queue' = IF SlabLen(cache_ref) >= size_hint THEN queue
                 ELSE Append(queue, cache_ref.next)
    /\ cache_mut' = cache_mut

\* ContextFuture::add_concurrent: extra_poll, handle(), insert, enqueue the key
add_concurrent(task) ==
    /\ extra_poll' = TRUE
    /\ cache_ref' = SlabInsert(cache_ref, task)
    /\ queue' = Append(queue, cache_ref.next)
    /\ cache_mut' = cache_mut

\* ContextFuture::add_exclusive: handle_wait(), TaskMut::add_task
add_exclusive(task) ==
    /\ cache_mut' = task
    /\ UNCHANGED <<extra_poll, cache_ref, queue>>

\* mutation: a cancelled delayed message is delivered like an elapsed one
CancelIgnored(e) == IF e.st = "waiting" THEN "Pending" ELSE "Some"

\* FutureMessage::poll: the cancellation receiver first, then the sleep
FutureResult(e) ==
    IF e.st = "cancelled" THEN "None" ELSE IF e.st = "elapsed" THEN "Some" ELSE "Pending"

\* poll_running, future step: poll future_cache[i]
FuturePoll ==
    /\ pc = "future" /\ i < Len(future_cache)
    /\ LET e == future_cache[i + 1]
           res == FutureResult(e) IN
        /\ future_cache' = IF res = "Pending" THEN future_cache
                           ELSE SwapRemove(future_cache, i + 1)
        /\ CASE res = "Pending" ->
                  /\ i' = i + 1
                  /\ ev' = Ev("fut_pending", 0)
                  /\ UNCHANGED <<pc, len, polled, extra_wake, extra_poll, cache_ref,
                                 queue, cache_mut>>
             [] res = "None" ->
                  /\ ev' = Ev("fut_none", 0)
                  /\ UNCHANGED <<pc, len, polled, i, extra_wake, extra_poll, cache_ref,
                                 queue, cache_mut>>
             [] res = "Some" /\ e.kind = "Ref" ->
                  /\ add_concurrent(Task("Ref", 0))
                  /\ ev' = Ev("fut_ref", 0)
                  /\ UNCHANGED <<pc, len, polled, i, extra_wake>>
             [] res = "Some" /\ e.kind = "Mut" ->
                  /\ add_exclusive(Task("Mut", 0))
                  /\ ev' = Ev("fut_mut", 0)
                  /\ EnterRunning
    /\ UNCHANGED <<state, act_state, act_rx, stream_cache, drop_notify, woken, dropped,
                   ninputs, dispatched, completed>>
    /\ UNCHANGED callerVars

\* poll_running, future step: the while loop ends
FutureEnd ==
    /\ pc = "future" /\ i >= Len(future_cache)
    /\ pc' = "stream"
    /\ Locals0
    /\ ev' = Ev("fut_end", 0)
    /\ UNCHANGED <<state, act_state, act_rx, queue, cache_mut, cache_ref, future_cache,
                   stream_cache, drop_notify, extra_poll, woken, dropped, ninputs,
                   dispatched, completed>>
    /\ UNCHANGED callerVars

\* mutation: a cancelled stream still delivers
StreamCancelIgnored(e) == IF e.st = "idle" THEN "Pending" ELSE "Some"

\* StreamMessage::poll_next: the cancellation receiver first, then the stream
StreamResult(e) ==
    IF e.st = "cancelled" THEN "None"
    ELSE IF e.st \in {"avail", "ready"} THEN "Some" ELSE "Pending"

\* the stream after poll_next gave an item: a stream whose items are always
\* ready ("ready") has the next one at hand, any other waits for it
AfterItem(e) == IF e.st = "ready" THEN "ready" ELSE "idle"

\* mutation: a stream is polled until it is pending or ends
NoYieldBound(n) == FALSE

\* "if polled == 16": the forced yield after 16 consecutive items; n = polled + 1
YieldBound(n) == n = YieldCap

\* poll_running, stream step: one poll_next of stream_cache[i]
StreamPoll ==
    /\ pc = "stream" /\ i < Len(stream_cache)
    /\ LET e == stream_cache[i + 1]
           res == StreamResult(e) IN
        CASE res = "Pending" ->
               /\ i' = i + 1 /\ polled' = 0
               /\ ev' = Ev("str_pending", 0)
               /\ UNCHANGED <<pc, len, extra_wake, extra_poll, cache_ref, queue,
                              cache_mut, stream_cache>>
          [] res = "None" ->
               /\ stream_cache' = SwapRemove(stream_cache, i + 1)
               /\ i' = i + 1 /\ polled' = 0
               /\ ev' = Ev("str_none", 0)
               /\ UNCHANGED <<pc, len, extra_wake, extra_poll, cache_ref, queue, cache_mut>>
          [] res = "Some" /\ e.kind = "Ref" ->
               /\ stream_cache' = [stream_cache EXCEPT ![i + 1].st = AfterItem(e),
                                                       ![i + 1].pre = FALSE]
               /\ add_concurrent(Task("Ref", 0))
               /\ ev' = Ev("str_ref", 0)
               /\ IF YieldBound(polled + 1)
                  THEN extra_wake' = TRUE /\ i' = i + 1 /\ polled' = 0
                  ELSE extra_wake' = extra_wake /\ i' = i /\ polled' = polled + 1
               /\ UNCHANGED <<pc, len>>
          [] res = "Some" /\ e.kind = "Mut" ->
               /\ stream_cache' = [stream_cache EXCEPT ![i + 1].st = AfterItem(e),
                                                       ![i + 1].pre = FALSE]
               /\ add_exclusive(Task("Mut", 0))
               /\ ev' = Ev("str_mut", 0)
               /\ EnterRunning
    /\ UNCHANGED <<state, act_state, act_rx, future_cache, drop_notify, woken, dropped,
                   ninputs, dispatched, completed>>
    /\ UNCHANGED callerVars

\* poll_running, stream step: the while loop ends; "if extra_wake { wake_by_ref }"
StreamEnd ==
    /\ pc = "stream" /\ i >= Len(stream_cache)
    /\ woken' = (woken \/ extra_wake)
    /\ pc' = "channel"
    /\ Locals0
    /\ ev' = Ev("str_end", 0)
    /\ UNCHANGED <<state, act_state, act_rx, queue, cache_mut, cache_ref, future_cache,
                   stream_cache, drop_notify, extra_poll, dropped, ninputs, dispatched,
                   completed>>
    /\ UNCHANGED callerVars


\* Receiver::poll_next of the mailbox: buffered messages are delivered even
\* after close; an empty mailbox yields None once it is closed or every
\* strong sender is gone
ChannelResult ==
    IF act_rx.buf # <<>> THEN "Some"
    ELSE IF act_rx.closed \/ ~addrAlive THEN "None" ELSE "Pending"

\* mutation: a concurrent message is taken from the mailbox and lost
ChannelRefLoses ==
    /\ pc = "channel" /\ ChannelResult = "Some" /\ Head(act_rx.buf).kind = "Ref"
    /\ act_rx' = [act_rx EXCEPT !.buf = Tail(act_rx.buf)]
    /\ ev' = Ev("rx_ref", Head(act_rx.buf).id)
    /\ UNCHANGED <<state, act_state, queue, cache_mut, cache_ref, future_cache,
                   stream_cache, drop_notify, extra_poll, pc, len, polled, i,
                   extra_wake, woken, dropped, ninputs, dispatched, completed>>
    /\ UNCHANGED callerVars

\* poll_running, channel loop: Ready(Some(ActorMessage::Ref(msg)))
ChannelRef ==
    /\ pc = "channel" /\ ChannelResult = "Some" /\ Head(act_rx.buf).kind = "Ref"
    /\ LET msg == Head(act_rx.buf) IN
        /\ act_rx' = [act_rx EXCEPT !.buf = Tail(act_rx.buf)]
        /\ dispatched' = Append(dispatched, msg.id)
        /\ add_concurrent(Task("Ref", msg.id))
        /\ ev' = EvLate("rx_ref", msg.id, msg.late)
    /\ UNCHANGED <<state, act_state, future_cache, stream_cache, drop_notify, pc, len,
                   polled, i, extra_wake, woken, dropped, ninputs, completed>>
    /\ UNCHANGED callerVars

\* mutation: the channel loop goes on after an exclusive message was installed
ContinueLoop == UNCHANGED <<pc, len, polled, i, extra_wake>>

\* "return self.poll_running(cx)" after an exclusive message was installed
ReEnter == EnterRunning

\* poll_running, channel loop: Ready(Some(ActorMessage::Mut(msg)))
ChannelMut ==
    /\ pc = "channel" /\ ChannelResult = "Some" /\ Head(act_rx.buf).kind = "Mut"
    /\ LET msg == Head(act_rx.buf) IN
        /\ act_rx' = [act_rx EXCEPT !.buf = Tail(act_rx.buf)]
        /\ dispatched' = Append(dispatched, msg.id)
        /\ add_exclusive(Task("Mut", msg.id))
        /\ ev' = EvLate("rx_mut", msg.id, msg.late)
    /\ ReEnter
    /\ UNCHANGED <<state, act_state, future_cache, stream_cache, drop_notify, woken,
                   dropped, ninputs, completed>>
    /\ UNCHANGED callerVars

\* mutation: a forced stop is treated like a graceful one
NeverForced(msg) == FALSE

\* "if let ActorState::Stop = state": a forced stop goes to Stopping at once
IsForced(msg) == msg.target = "Stop"

\* mutation: the confirmation is sent when the StateChange is processed
SendNotifyNow(msg) ==
    /\ notify' = [notify EXCEPT ![msg.notify] = "sent"]
    /\ drop_notify' = drop_notify

\* mutation: a sender that is already kept stays, the new one is dropped
KeepFirstNotify(msg) ==
    /\ drop_notify' = IF drop_notify # 0 THEN drop_notify ELSE msg.notify
    /\ notify' = IF drop_notify # 0
                 THEN [notify EXCEPT ![msg.notify] = "dropped"] ELSE notify

\* "this.drop_notify = Some(notify)": the sender is kept for Drop; a sender
\* that was kept before is dropped by the assignment
StoreNotify(msg) ==
    /\ drop_notify' = msg.notify
    /\ notify' = IF drop_notify # 0
                 THEN [notify EXCEPT ![drop_notify] = "dropped"] ELSE notify

\* mutation: the State arm does not close the mailbox
StateArmRxOpen(rx) == [rx EXCEPT !.buf = Tail(rx.buf)]

\* the mailbox after the State arm: the message is taken, "this.act_rx.close()"
StateArmRx(rx) == [buf |-> Tail(rx.buf), closed |-> TRUE]

\* poll_running, channel loop: Ready(Some(ActorMessage::State(state, notify)))
ChannelState ==
    /\ pc = "channel" /\ ChannelResult = "Some" /\ Head(act_rx.buf).kind = "State"
    /\ LET msg == Head(act_rx.buf) IN
        /\ StoreNotify(msg)
        /\ act_rx' = StateArmRx(act_rx)
        /\ act_state' = "StopGraceful"
        /\ dispatched' = Append(dispatched, msg.id)
        /\ ev' = Ev("rx_state", msg.id)
        /\ IF IsForced(msg)
           THEN state' = "Stopping" /\ pc' = "close"
           ELSE UNCHANGED <<state, pc>>
    /\ UNCHANGED <<queue, cache_mut, cache_ref, future_cache, stream_cache, extra_poll,
                   len, polled, i, extra_wake, woken, dropped, ninputs, completed,
                   addrAlive, rq, wk, sreq, nsent>>

\* poll_running, channel loop: Ready(None)
ChannelNone ==
    /\ pc = "channel" /\ ChannelResult = "None"
    /\ act_rx' = [act_rx EXCEPT !.closed = TRUE]
    /\ act_state' = "StopGraceful"
    /\ ev' = Ev("rx_none", 0)
    /\ IF extra_poll
       THEN EnterRunning /\ state' = state
       ELSE IF have_cache
            THEN ReturnPending /\ state' = state
            ELSE state' = "Stopping" /\ pc' = "close" /\ Locals0
    /\ UNCHANGED <<queue, cache_mut, cache_ref, future_cache, stream_cache, drop_notify,
                   extra_poll, woken, dropped, ninputs, dispatched, completed>>
    /\ UNCHANGED callerVars

\* poll_running, channel loop: Pending
ChannelPending ==
    /\ pc = "channel" /\ ChannelResult = "Pending"
    /\ ev' = Ev("rx_pending", 0)
    /\ IF extra_poll THEN EnterRunning ELSE ReturnPending
    /\ UNCHANGED <<state, act_state, act_rx, queue, cache_mut, cache_ref, future_cache,
                   stream_cache, drop_notify, extra_poll, woken, dropped, ninputs,
                   dispatched, completed>>
    /\ UNCHANGED callerVars

\* poll_close, None arm: build on_stop and install it
\* mutation: poll_close installs on_stop on every poll
InstallStopAgain ==
    /\ pc = "close"
    /\ cache_mut' = Task("stop", 0)
    /\ ev' = Ev("install_stop", 0)
    /\ UNCHANGED <<state, act_state, act_rx, queue, cache_ref, future_cache, stream_cache,
                   drop_notify, extra_poll, pc, len, polled, i, extra_wake, woken, dropped,
                   ninputs, dispatched, completed>>
    /\ UNCHANGED callerVars

\* poll_close, None arm: on_stop is created and put into the exclusive slot
InstallStop ==
    /\ pc = "close" /\ cache_mut = NoTask
    /\ cache_mut' = Task("stop", 0)
    /\ ev' = Ev("install_stop", 0)
    /\ UNCHANGED <<state, act_state, act_rx, queue, cache_ref, future_cache, stream_cache,
                   drop_notify, extra_poll, pc, len, polled, i, extra_wake, woken, dropped,
                   ninputs, dispatched, completed>>
    /\ UNCHANGED callerVars

\* poll_close, Some arm: poll the resident task; on Ready the driver is done
PollStopTask ==
    /\ pc = "close" /\ cache_mut # NoTask
    /\ \E out \in Outcomes, eff \in Effects :
        /\ ContextCalls(eff)
        /\ CASE out = "Pending" ->
                  /\ cache_mut' = [cache_mut EXCEPT !.started = TRUE]
                  /\ ReturnPending
             [] out = "Ready" ->
                  /\ cache_mut' = NoTask
                  /\ pc' = "done" /\ Locals0
    /\ ev' = Ev("poll_stop", 0)
    /\ UNCHANGED <<state, queue, cache_ref, drop_notify, extra_poll, woken, dropped,
                   dispatched, completed>>
    /\ UNCHANGED callerVars

\* confirm slots of the StateChange messages still in the mailbox
Buffered == {act_rx.buf[k].notify : k \in {j \in 1..Len(act_rx.buf) : act_rx.buf[j].kind = "State"}}

\* Drop for ContextFuture: signal the held confirm slot; then the fields go:
\* the receiver with the messages still buffered, the tasks, the wake queue
\* and the caches
DropFuture ==
    /\ dropped' = TRUE
    /\ notify' = [r \in Stops |->
                    IF r = drop_notify THEN "sent"
                    ELSE IF r \in Buffered THEN "dropped" ELSE notify[r]]
    /\ drop_notify' = 0
    /\ act_rx' = [buf |-> <<>>, closed |-> TRUE]
    /\ cache_mut' = NoTask
    /\ cache_ref' = EmptySlab
    /\ queue' = <<>>
    /\ future_cache' = <<>>
    /\ stream_cache' = <<>>
    /\ extra_poll' = FALSE
    /\ woken' = FALSE
    /\ Locals0
    /\ UNCHANGED <<state, act_state, ninputs, dispatched, completed,
                   addrAlive, rq, wk, sreq, nsent>>

\* the driver returned Ready: the executor drops the finished future
Drop ==
    /\ pc = "done" /\ ~dropped
    /\ DropFuture
    /\ pc' = pc
    /\ ev' = Ev("drop", 0)

\* the driver is about to poll a handler future (or on_start / on_stop)
AtTaskPoll ==
    \/ pc \in {"start", "close"} /\ cache_mut # NoTask
    \/ pc = "drain" /\ queue # <<>> /\ SlabContains(cache_ref, Head(queue))
    \/ pc = "excl" /\ cache_mut # NoTask /\ ~ExclusiveMustWait

\* the polled future panics: the panic is not caught by the driver, the
\* unwinding drops the ContextFuture
PanicUnwind ==
    /\ AtTaskPoll /\ ~dropped
    /\ DropFuture
    /\ pc' = "panicked"
    /\ ev' = Ev("panic", 0)

\* ---- the callers of the actor ---------------------------------------------
\* The driver and its callers are tasks of one cooperative local executor:
\* callers, timers and streams act between two polls of the driver, or
\* after it is gone.
CallerTurn == pc = "idle" \/ dropped

\* Addr::send (k = "Ref") / Addr::wait (k = "Mut"): the enqueue completes
Send(k) ==
    /\ CallerTurn /\ addrAlive /\ ~act_rx.closed /\ Len(act_rx.buf) < ChanCap
    /\ ninputs < MaxInputs
    /\ ninputs' = ninputs + 1
    /\ nsent' = nsent + 1
    /\ act_rx' = [act_rx EXCEPT !.buf = Append(act_rx.buf,
                       Msg(k, nsent + 1, \E r \in Stops : sreq[r].st \in Resolved))]
    /\ woken' = TRUE
    /\ ev' = Ev("send", nsent + 1)
    /\ UNCHANGED <<state, act_state, queue, cache_mut, cache_ref, future_cache,
                   stream_cache, drop_notify, extra_poll, pc, len, polled, i, extra_wake,
                   dropped, addrAlive, rq, wk, notify, sreq, dispatched,
                   completed>>

\* Addr::send / Addr::wait on a closed mailbox: the request resolves to
\* Err(Closed), nothing is enqueued
SendClosed ==
    /\ CallerTurn /\ addrAlive /\ act_rx.closed
    /\ ninputs < MaxInputs
    /\ ninputs' = ninputs + 1
    /\ ev' = Ev("send_closed", 0)
    /\ UNCHANGED <<state, act_state, act_rx, queue, cache_mut, cache_ref, future_cache,
                   stream_cache, drop_notify, extra_poll, pc, len, polled, i, extra_wake,
                   woken, dropped, addrAlive, rq, wk, notify, sreq, nsent,
                   dispatched, completed>>

\* Addr::stop(graceful): the request is built in its Request state, nothing
\* is sent yet
StopCall(r, graceful) ==
    /\ CallerTurn /\ addrAlive /\ sreq[r].st = "none"
    /\ ninputs < MaxInputs
    /\ ninputs' = ninputs + 1
    /\ \A q \in 1..(r - 1) : sreq[q].st # "none"
    /\ sreq' = [sreq EXCEPT ![r] = [st |-> "Request", graceful |-> graceful, id |-> 0]]
    /\ ev' = Ev("env", 0)
    /\ UNCHANGED <<state, act_state, act_rx, queue, cache_mut, cache_ref, future_cache,
                   stream_cache, drop_notify, extra_poll, pc, len, polled, i, extra_wake,
                   woken, dropped, addrAlive, rq, wk, notify, nsent, dispatched,
                   completed>>

\* mutation: a dropped reply slot is not noticed
ClosedIgnored(slot, tr, elapsed) ==
    IF slot = "sent" THEN "Ok"
    ELSE IF tr /\ elapsed THEN "ReceiveTimeout" ELSE "Response"

\* mutation: a reply that was sent is lost once its sender is gone
ReplyLost(slot, tr, elapsed) ==
    IF slot # "held" THEN "Closed"
    ELSE IF tr /\ elapsed THEN "ReceiveTimeout" ELSE "Response"

\* mutation: the response timeout is polled before the reply slot
TimeoutBeforeReply(slot, tr, elapsed) ==
    IF tr /\ elapsed THEN "ReceiveTimeout"
    ELSE IF slot = "sent" THEN "Ok"
    ELSE IF slot = "dropped" THEN "Closed" ELSE "Response"

\* _MessageRequest::poll, Response arm: the reply slot first, then the
\* response timeout if one was configured
ResponsePoll(slot, tr, elapsed) ==
    IF slot = "sent" THEN "Ok"
    ELSE IF slot = "dropped" THEN "Closed"
    ELSE IF tr /\ elapsed THEN "ReceiveTimeout" ELSE "Response"

\* _MessageRequest::poll of the request of Addr::stop.  tr: the caller
\* configured timeout_response (only the Response arm reads it, so it is
\* drawn when it is read); elapsed: the timer that is polled has fired
StopReqPoll(r) ==
    \E tr \in BOOLEAN, elapsed \in BOOLEAN :
        /\ CallerTurn
        /\ ev' = Ev("env", 0)
        /\ CASE sreq[r].st = "Request" /\ act_rx.closed ->
                  \* the enqueue future: Ready(Err(Closed))
                  /\ sreq' = [sreq EXCEPT ![r].st = "Closed"]
                  /\ UNCHANGED <<act_rx, nsent, notify, woken>>
             [] sreq[r].st = "Request" /\ ~act_rx.closed /\ Len(act_rx.buf) < ChanCap ->
                  \* Ready(Ok(())): the message is in the mailbox, go to Response
                  \* and poll again
                  LET msg == StateMsg(nsent + 1,
                                      IF sreq[r].graceful THEN "StopGraceful" ELSE "Stop", r) IN
                    /\ act_rx' = [act_rx EXCEPT !.buf = Append(act_rx.buf, msg)]
                    /\ nsent' = nsent + 1
                    /\ notify' = [notify EXCEPT ![r] = "held"]
                    /\ woken' = TRUE
                    /\ sreq' = [sreq EXCEPT ![r].st = ResponsePoll("held", tr, elapsed),
                                             ![r].id = nsent + 1]
             [] sreq[r].st = "Request" /\ ~act_rx.closed /\ Len(act_rx.buf) >= ChanCap ->
                  \* Pending: poll the send timeout
                  /\ elapsed
                  /\ sreq' = [sreq EXCEPT ![r].st = "SendTimeout"]
                  /\ UNCHANGED <<act_rx, nsent, notify, woken>>
             [] sreq[r].st = "Response" ->
                  /\ ResponsePoll(notify[r], tr, elapsed) # "Response"
                  /\ sreq' = [sreq EXCEPT ![r].st = ResponsePoll(notify[r], tr, elapsed)]
                  /\ UNCHANGED <<act_rx, nsent, notify, woken>>
             [] OTHER -> FALSE
        /\ UNCHANGED <<state, act_state, queue, cache_mut, cache_ref, future_cache,
                       stream_cache, drop_notify, extra_poll, pc, len, polled, i,
                       extra_wake, dropped, addrAlive, rq, wk, ninputs, dispatched,
                       completed>>

\* the last strong Addr is dropped (a pending enqueue borrows its Addr)
DropAddr ==
    /\ CallerTurn /\ addrAlive /\ \A r \in Stops : sreq[r].st # "Request"
    /\ addrAlive' = FALSE
    /\ woken' = TRUE
    /\ ev' = Ev("env", 0)
    /\ UNCHANGED <<state, act_state, act_rx, queue, cache_mut, cache_ref, future_cache,
                   stream_cache, drop_notify, extra_poll, pc, len, polled, i, extra_wake,
                   dropped, rq, wk, notify, sreq, ninputs, nsent, dispatched, completed>>

\* ActorWaker::wake / wake_by_ref of the waker bound to slab key idx (of a
\* task that was polled there, possibly already gone): enqueue, forward
Wake(idx) ==
    /\ pc = "idle" /\ ~dropped /\ Len(queue) < MaxQueue
    /\ idx \in 1..Len(cache_ref.entries)
    /\ cache_ref.entries[idx].kind = "vacant" \/ cache_ref.entries[idx].started
    /\ queue' = Append(queue, idx)
    /\ woken' = TRUE
    /\ ev' = Ev("env", 0)
    /\ UNCHANGED <<state, act_state, act_rx, cache_mut, cache_ref, future_cache,
                   stream_cache, drop_notify, extra_poll, pc, len, polled, i, extra_wake,
                   dropped, ninputs, dispatched, completed>>
    /\ UNCHANGED callerVars

\* the waker of the exclusive task, on_start or on_stop: the outer waker
WakeMut ==
    /\ pc = "idle" /\ ~dropped /\ ~woken /\ cache_mut.started
    /\ woken' = TRUE
    /\ ev' = Ev("env", 0)
    /\ UNCHANGED <<state, act_state, act_rx, queue, cache_mut, cache_ref, future_cache,
                   stream_cache, drop_notify, extra_poll, pc, len, polled, i, extra_wake,
                   dropped, ninputs, dispatched, completed>>
    /\ UNCHANGED callerVars

\* the sleep of a delayed message elapses
TimerFire(j) ==
    /\ pc = "idle" /\ ~dropped /\ j \in 1..Len(future_cache)
    /\ future_cache[j].st = "waiting"
    /\ future_cache' = [future_cache EXCEPT ![j].st = "elapsed"]
    /\ woken' = TRUE
    /\ ev' = Ev("env", 0)
    /\ UNCHANGED <<state, act_state, act_rx, queue, cache_mut, cache_ref, stream_cache,
                   drop_notify, extra_poll, pc, len, polled, i, extra_wake, dropped,
                   ninputs, dispatched, completed>>
    /\ UNCHANGED callerVars

\* ContextJoinHandle::cancel of a delayed message
CancelLater(j) ==
    /\ pc = "idle" /\ ~dropped /\ j \in 1..Len(future_cache)
    /\ future_cache[j].st # "cancelled"
    /\ future_cache' = [future_cache EXCEPT ![j].st = "cancelled"]
    /\ woken' = TRUE
    /\ ev' = Ev("env", 0)
    /\ UNCHANGED <<state, act_state, act_rx, queue, cache_mut, cache_ref, stream_cache,
                   drop_notify, extra_poll, pc, len, polled, i, extra_wake, dropped,
                   ninputs, dispatched, completed>>
    /\ UNCHANGED callerVars

\* an attached stream (or interval) has its next item ready
StreamItem(j) ==
    /\ pc = "idle" /\ ~dropped /\ ninputs < MaxInputs
    /\ j \in 1..Len(stream_cache) /\ stream_cache[j].st = "idle"
    /\ stream_cache' = [stream_cache EXCEPT ![j].st = "avail", ![j].pre = addrAlive]
    /\ ninputs' = ninputs + 1
    /\ woken' = TRUE
    /\ ev' = Ev("env", 0)
    /\ UNCHANGED <<state, act_state, act_rx, queue, cache_mut, cache_ref, future_cache,
                   drop_notify, extra_poll, pc, len, polled, i, extra_wake, dropped, dispatched, completed, addrAlive, rq, wk, notify, sreq, nsent>>

\* ContextJoinHandle::cancel of a stream (the stream ending looks the same)
CancelStream(j) ==
    /\ pc = "idle" /\ ~dropped /\ j \in 1..Len(stream_cache)
    /\ stream_cache[j].st # "cancelled"
    /\ stream_cache' = [stream_cache EXCEPT ![j].st = "cancelled"]
    /\ woken' = TRUE
    /\ ev' = Ev("env", 0)
    /\ UNCHANGED <<state, act_state, act_rx, queue, cache_mut, cache_ref, future_cache,
                   drop_notify, extra_poll, pc, len, polled, i, extra_wake, dropped,
                   ninputs, dispatched, completed>>
    /\ UNCHANGED callerVars

Next ==
    \/ Poll
    \/ InstallStart
    \/ PollStartTask
    \/ DrainEnd
    \/ DrainPop
    \/ ExclBlocked
    \/ ExclPoll
    \/ ExclNone
    \/ FuturePoll
    \/ FutureEnd
    \/ StreamPoll
    \/ StreamEnd
    \/ ChannelRef
    \/ ChannelMut
    \/ ChannelState
    \/ ChannelNone
    \/ ChannelPending
    \/ InstallStop
    \/ PollStopTask
    \/ Drop
    \/ PanicUnwind
    \/ \E k \in {"Ref", "Mut"} : Send(k)
    \/ SendClosed
    \/ \E r \in Stops, g \in BOOLEAN : StopCall(r, g)
    \/ \E r \in Stops : StopReqPoll(r)
    \/ DropAddr
    \/ \E idx \in 1..MaxInputs : Wake(idx)
    \/ WakeMut
    \/ \E j \in 1..MaxInputs : TimerFire(j)
    \/ \E j \in 1..MaxInputs : CancelLater(j)
    \/ \E j \in 1..MaxInputs : StreamItem(j)
    \/ \E j \in 1..MaxInputs : CancelStream(j)

Spec == Init /\ [][Next]_vars

\* ---- the same program under a fair schedule --------------------------------
\* a step of the driver's poll, from the executor's poll to its return
DriverStep ==
    \/ Poll \/ InstallStart \/ PollStartTask \/ DrainEnd \/ DrainPop \/ ExclBlocked
    \/ ExclPoll \/ ExclNone \/ FuturePoll \/ FutureEnd \/ StreamPoll \/ StreamEnd
    \/ ChannelRef \/ ChannelMut \/ ChannelState \/ ChannelNone \/ ChannelPending
    \/ InstallStop \/ PollStopTask \/ Drop

\* a poll of a handler, of on_start or of on_stop that returns Ready
Completes ==
    \/ DrainPop /\ SlabLen(cache_ref') < SlabLen(cache_ref)
    \/ ExclPoll /\ cache_mut' = NoTask
    \/ PollStartTask /\ cache_mut' = NoTask
    \/ PollStopTask /\ pc' = "done"

\* the waker of a task in flight is woken
Wakes ==
    \/ \E idx \in 1..MaxInputs : Wake(idx) /\ SlabContains(cache_ref, idx)
    \/ WakeMut

\* the executor polls a woken driver and a poll runs to its return (WF); a
\* task in flight is woken again and again and a task that is polled again
\* and again completes (SF): the assumption that handlers terminate
FairSpec == Spec /\ WF_vars(DriverStep) /\ SF_vars(Completes) /\ SF_vars(Wakes)

\* ---- one request future, from its construction to its result ---------------
\* The driver is reduced to what a request sees of it: the mailbox takes
\* messages, the actor takes them out, a handler replies, the driver goes.
\* what the request specification leaves alone
driverOnly == <<state, act_state, queue, cache_mut, cache_ref, future_cache,
                stream_cache, drop_notify, extra_poll, pc, len, polled, i, extra_wake,
                woken, dropped, notify, sreq, ninputs, nsent, dispatched, completed, ev,
                wk>>

\* a message of another caller
Filler == Msg("Ref", 0, FALSE)

\* the message of the request that is followed
Mine == Msg("Ref", 1, FALSE)

RECURSIVE Fillers(_)
Fillers(n) == IF n = 0 THEN <<>> ELSE Append(Fillers(n - 1), Filler)

\* the request was just built by Addr::send / wait or by the send / wait of
\* a weak recipient, on either kind of runtime; other callers may have
\* filled the mailbox
ReqInit ==
    /\ state = "Running" /\ act_state = "Running"
    /\ \E n \in 0..ChanCap : act_rx = [buf |-> Fillers(n), closed |-> FALSE]
    /\ queue = <<>> /\ cache_mut = NoTask /\ cache_ref = EmptySlab
    /\ future_cache = <<>> /\ stream_cache = <<>>
    /\ drop_notify = 0 /\ extra_poll = FALSE
    /\ pc = "idle" /\ len = 0 /\ polled = 0 /\ i = 0 /\ extra_wake = FALSE
    /\ woken = FALSE /\ dropped = FALSE
    /\ addrAlive = TRUE
    /\ notify = [r \in Stops |-> "none"]
    /\ sreq = [r \in Stops |-> NoReq]
    /\ ninputs = 0 /\ nsent = 0 /\ dispatched = <<>> /\ completed = {}
    /\ ev = Ev("init", 0)
    /\ \E weak, eager \in BOOLEAN : rq = NewRequest(weak, eager)
    /\ wk = NoWaker

\* the request exists and has not resolved or panicked
Live == rq.st # "none" /\ rq.out = "-"

\* polling a Sleep starts it if it was not started
Started(sl) == IF sl.at >= 0 THEN sl ELSE [sl EXCEPT !.at = rq.now + sl.dur]

\* Sleep::poll is Ready once the deadline is reached
SleepReady(sl) == Started(sl).at <= rq.now

\* mutation: WeakAddr::upgrade succeeds without a strong Addr
UpgradeAlways == TRUE

\* WeakAddr::upgrade: Some while a strong Addr exists
upgrade == addrAlive

\* the poll of the enqueue future.  send_weak upgrades first, at its first
\* poll, and keeps the upgraded Addr while the send is pending; the send
\* fails on a closed mailbox, completes while there is room, else pends
EnqueueResult ==
    IF rq.weak /\ rq.fut = "new" /\ ~upgrade THEN "Err"
    ELSE IF act_rx.closed THEN "Err"
    ELSE IF Len(act_rx.buf) < ChanCap THEN "Ok"
    ELSE "Pending"

\* mutation: the send timeout is polled before the enqueue future
TimeoutFirst(enq, elapsed) ==
    IF elapsed THEN "SendTimeout"
    ELSE IF enq = "Ok" THEN "Response"
    ELSE IF enq = "Err" THEN "Closed" ELSE "Request"

\* _MessageRequest::poll, Request arm: the enqueue future first; the send
\* timeout only when the enqueue is Pending
RequestArm(enq, elapsed) ==
    IF enq = "Ok" THEN "Response"
    ELSE IF enq = "Err" THEN "Closed"
    ELSE IF elapsed THEN "SendTimeout" ELSE "Request"

\* what the receiver of the reply slot sees
SlotSeen == IF rq.slot \in {"sent", "dropped"} THEN rq.slot ELSE "held"

\* the result of a poll as the request's outcome ("-": Pending)
Outcome(res) == IF res \in {"Request", "Response"} THEN "-" ELSE res

\* <_MessageRequest as Future>::poll
ReqPoll ==
    /\ Live
    /\ IF rq.st = "Request"
       THEN LET enq == EnqueueResult
                arm == RequestArm(enq, SleepReady(rq.timeout))
                tr == rq.timeout_response
                \* "self.set(Response {..}); self.poll(cx)": the slot cannot
                \* be fulfilled yet, so the response timeout is polled
                res == IF arm = "Response"
                       THEN ResponsePoll("held", tr # NoSleep, SleepReady(tr))
                       ELSE arm IN
              /\ act_rx' = IF arm = "Response"
                           THEN [act_rx EXCEPT !.buf = Append(act_rx.buf, Mine)]
                           ELSE act_rx
              /\ rq' = [rq EXCEPT
                          !.st = IF arm = "Response" THEN "Response" ELSE "Request",
                          !.out = Outcome(res),
                          !.fut = IF enq = "Pending" THEN "pending" ELSE "done",
                          !.timeout = IF enq = "Pending" THEN Started(@) ELSE @,
                          !.timeout_response =
                              IF arm = "Response" /\ tr # NoSleep THEN Started(@) ELSE @,
                          !.slot = IF arm = "Response" THEN "queued"
                                   ELSE IF res = "Request" THEN "caller" ELSE "dropped",
                          !.polled = TRUE,
                          !.missed = (res = "Response" /\ tr # NoSleep /\ SleepReady(tr)),
                          !.arrived = IF arm = "Response" THEN rq.now ELSE @,
                          !.gone1 = IF rq.polled THEN @ ELSE ~addrAlive,
                          !.late = (enq = "Ok" /\ SleepReady(rq.timeout))]
       ELSE LET tr == rq.timeout_response
                res == ResponsePoll(SlotSeen, tr # NoSleep, SleepReady(tr)) IN
              /\ act_rx' = act_rx
              /\ rq' = [rq EXCEPT
                          !.out = Outcome(res),
                          !.timeout_response =
                              IF SlotSeen = "held" /\ tr # NoSleep THEN Started(@) ELSE @,
                          !.missed = (res = "Response" /\ tr # NoSleep /\ SleepReady(tr))]
    /\ UNCHANGED addrAlive
    /\ UNCHANGED driverOnly

\* _MessageRequest::timeout(dur): a new Sleep in the Request state,
\* unreachable!(TIMEOUT_CONFIGURABLE) in the Response state.  A caller
\* sets each timeout at most once
ReqTimeout(d) ==
    /\ Live /\ (rq.st = "Request" => rq.timeout.dur = DEFAULT_TIMEOUT)
    /\ rq' = IF rq.st = "Request"
             THEN [rq EXCEPT !.timeout = SleepAt(d, rq.now, rq.eager),
                             !.rearm = @ \/ rq.polled]
             ELSE [rq EXCEPT !.out = "panic"]
    /\ UNCHANGED <<act_rx, addrAlive>>
    /\ UNCHANGED driverOnly

\* _MessageRequest::timeout_response(dur): likewise
ReqTimeoutResponse(d) ==
    /\ Live /\ (rq.st = "Request" => rq.timeout_response = NoSleep)
    /\ rq' = IF rq.st = "Request"
             THEN [rq EXCEPT !.timeout_response = SleepAt(d, rq.now, rq.eager),
                             !.rearm = @ \/ rq.polled]
             ELSE [rq EXCEPT !.out = "panic"]
    /\ UNCHANGED <<act_rx, addrAlive>>
    /\ UNCHANGED driverOnly

\* time passes
Tick ==
    /\ Live /\ rq.now < MaxTime
    /\ rq' = [rq EXCEPT !.now = @ + TickSecs]
    /\ UNCHANGED <<act_rx, addrAlive>>
    /\ UNCHANGED driverOnly

\* the driver takes the next message out of the mailbox (channel loop); the
\* message of the request goes to its handler
ActorTake ==
    /\ Live /\ act_rx.buf # <<>>
    /\ act_rx' = [act_rx EXCEPT !.buf = Tail(@)]
    /\ rq' = IF Head(act_rx.buf) = Mine THEN [rq EXCEPT !.slot = "handler"] ELSE rq
    /\ UNCHANGED addrAlive
    /\ UNCHANGED driverOnly

\* the handler completes and sends the reply
Reply ==
    /\ Live /\ rq.slot = "handler"
    /\ rq' = [rq EXCEPT !.slot = "sent"]
    /\ UNCHANGED <<act_rx, addrAlive>>
    /\ UNCHANGED driverOnly

\* the driver is dropped (forced stop, panic, or its normal end): the
\* mailbox closes, messages and handlers, with their reply senders, go
DriverGone ==
    /\ Live /\ (~act_rx.closed \/ act_rx.buf # <<>> \/ rq.slot = "handler")
    /\ act_rx' = [buf |-> <<>>, closed |-> TRUE]
    /\ rq' = IF rq.slot \in {"queued", "handler"} THEN [rq EXCEPT !.slot = "dropped"] ELSE rq
    /\ UNCHANGED addrAlive
    /\ UNCHANGED driverOnly

\* Context::stop or a processed StateChange: the mailbox is closed, what it
\* holds stays
CloseMailbox ==
    /\ Live /\ ~act_rx.closed
    /\ act_rx' = [act_rx EXCEPT !.closed = TRUE]
    /\ UNCHANGED <<rq, wk, addrAlive>>
    /\ UNCHANGED driverOnly

\* every strong Addr is dropped; a request built by an Addr borrows it, so
\* only a weak recipient's request can see this
DropAddrs ==
    /\ Live /\ rq.weak /\ addrAlive
    /\ addrAlive' = FALSE
    /\ UNCHANGED <<rq, wk, act_rx>>
    /\ UNCHANGED driverOnly

\* another caller's send completes
OtherSend ==
    /\ Live /\ addrAlive /\ ~act_rx.closed /\ Len(act_rx.buf) < ChanCap
    /\ act_rx' = [act_rx EXCEPT !.buf = Append(@, Filler)]
    /\ UNCHANGED <<rq, wk, addrAlive>>
    /\ UNCHANGED driverOnly

ReqNext ==
    \/ ReqPoll
    \/ \E d \in Durs : ReqTimeout(d)
    \/ \E d \in Durs : ReqTimeoutResponse(d)
    \/ Tick
    \/ ActorTake
    \/ Reply
    \/ DriverGone
    \/ CloseMailbox
    \/ DropAddrs
    \/ OtherSend

ReqSpec == ReqInit /\ [][ReqNext]_vars

\* ---- properties ------------------------------------------------------------
\* the mailbox ids of the handler tasks resident in the driver
Resident ==
    {cache_ref.entries[k].id : k \in {j \in 1..Len(cache_ref.entries) :
                                       cache_ref.entries[j].kind # "vacant"}}
        \cup {cache_mut.id}

\* the mailbox ids of the StateChange messages
StopIds == {sreq[r].id : r \in Stops}

\* C1 -- Exclusion: an exclusive handler's future is polled only while the
\* concurrent slab is empty; from its first poll until it completes the slab
\* stays empty and no concurrent handler future is polled; and an exclusive
\* task is installed only into an empty slot, so no other exclusive handler
\* is installed or polled meanwhile.
Exclusion ==
    /\ ev.op = "poll_mut" => SlabIsEmpty(cache_ref)
    /\ cache_mut.kind = "Mut" /\ cache_mut.started =>
          SlabIsEmpty(cache_ref) /\ ev.op # "poll_ref"
    /\ ev.op \in InstallOps => ev.free

\* an exclusive handler was polled and is pending after an earlier handler
\* of the same actor completed
ExclusionWitness ==
    ev.op = "poll_mut" /\ cache_mut.started /\ cache_mut.id = 2 /\ 1 \in completed

\* C2 -- Order: the driver takes the mailbox messages in exactly the order
\* they were enqueued, without a gap: the messages dispatched so far are
\* numbers 1..k in this order, and the mailbox holds k+1..nsent in order.
MailboxOrder ==
    /\ \A k \in 1..Len(dispatched) : dispatched[k] = k
    /\ ~dropped =>
          /\ nsent = Len(dispatched) + Len(act_rx.buf)
          /\ \A k \in 1..Len(act_rx.buf) : act_rx.buf[k].id = Len(dispatched) + k

\* two messages were dispatched and a third waits in the mailbox
MailboxOrderWitness ==
    Len(dispatched) >= 2 /\ act_rx.buf # <<>> /\ ~dropped /\ state = "Running"

\* C3 -- While the exclusive slot is occupied the driver polls neither the
\* mailbox nor the delayed messages nor the streams; so while an exclusive
\* mailbox message E is resident, E is the last message dispatched.
SlotBlocksSources ==
    /\ ev.op \in SourceOps => ev.free
    /\ cache_mut.id > 0 =>
          dispatched # <<>> /\ dispatched[Len(dispatched)] = cache_mut.id

\* an exclusive mailbox message is pending while a message waits behind it
SlotBlocksSourcesWitness ==
    /\ ev.op = "excl_blocked" \/ ev.op = "poll_mut"
    /\ cache_mut.id > 0 /\ act_rx.buf # <<>> /\ pc = "idle"

\* C4 -- At most one exclusive task is resident: an exclusive task (from
\* the mailbox, a delayed message, a stream, on_start or on_stop) is
\* installed only when the slot is empty, so no unfinished exclusive task is
\* overwritten: every dispatched message is resident or complete.
SingleExclusive ==
    /\ ev.op \in InstallOps => ev.free /\ cache_mut # NoTask /\ ~cache_mut.started
    /\ ~dropped =>
          \A k \in 1..Len(dispatched) :
              dispatched[k] \in Resident \cup completed \cup StopIds

\* an exclusive task is installed after an earlier handler completed
SingleExclusiveWitness ==
    ev.op \in {"rx_mut", "fut_mut", "str_mut"} /\ completed # {}

\* C5 (as stated) -- while an exclusive task is in the slot, no concurrent
\* task is polled.
NoConcurrentWhileExclusive == ev.op = "poll_ref" => cache_mut = NoTask

\* C5 (amended) -- while an exclusive task that was already polled is in
\* the slot, no concurrent task is polled; the concurrent tasks resident
\* when it was installed are polled until they complete.
NoConcurrentOncePolled == ev.op = "poll_ref" => ~cache_mut.started

\* the drain loop ran while a polled exclusive task was resident, and
\* polled nothing
NoConcurrentOncePolledWitness ==
    ev.op = "drain_stale" /\ cache_mut.kind = "Mut" /\ cache_mut.started

\* the StateChange of the graceful stop request r was processed
GracefulProcessed(r) == Processed(r) /\ sreq[r].graceful

\* every message enqueued before the StateChange of stop request r was
\* dispatched and, if it has a handler, its handler completed
EarlierDone(r) ==
    \A n \in 1..(sreq[r].id - 1) :
        n <= Len(dispatched) /\ n \in completed \cup StopIds

\* C6 (as stated) -- Graceful drain: after Addr::stop(true), every message
\* enqueued before the stop message is dispatched and its handler completes
\* before on_stop starts.
GracefulDrainAlways ==
    cache_mut.kind = "stop" => \A r \in Stops : GracefulProcessed(r) => EarlierDone(r)

\* C6 (amended) -- the same, unless the driver processes the StateChange of
\* an Addr::stop(false) before the drain has completed.
GracefulDrain ==
    cache_mut.kind = "stop" /\ ~forced =>
        \A r \in Stops : GracefulProcessed(r) => EarlierDone(r)

\* on_stop is running after a graceful stop that had a message before it
GracefulDrainWitness ==
    /\ cache_mut.kind = "stop" /\ cache_mut.started /\ ~forced
    /\ \E r \in Stops : GracefulProcessed(r) /\ sreq[r].id > 1 /\ 1 \in completed

\* the polls of the mailbox
RxOps == {"rx_ref", "rx_mut", "rx_state", "rx_none", "rx_pending"}

\* the ids of the StateChange messages of the forced stop requests
ForcedIds == {sreq[r].id : r \in {q \in Stops : ~sreq[q].graceful}}

\* C7 -- Forced stop: once the driver processed the StateChange of
\* Addr::stop(false), that StateChange stays the last message taken from the
\* mailbox (what was behind it is never handled), and the mailbox is not
\* polled again.
ForcedStop ==
    forced =>
        /\ dispatched[Len(dispatched)] \in ForcedIds
        /\ ev.op \in RxOps => ev.op = "rx_state" /\ ev.id = dispatched[Len(dispatched)]

\* on_stop runs after a forced stop while a message is left in the mailbox
ForcedStopWitness ==
    forced /\ act_rx.buf # <<>> /\ cache_mut.kind = "stop" /\ cache_mut.started

\* C8 (as stated) -- after Addr::stop(false) is processed the concurrent
\* tasks resident in the slab run to completion, and on_stop runs only
\* after they completed.
InFlightBeforeOnStop ==
    forced /\ ~dropped /\ (cache_mut.kind = "stop" \/ pc = "done") =>
        SlabIsEmpty(cache_ref)

\* C8 (amended) -- after Addr::stop(false) is processed the driver is in
\* the Stopping phase and only polls on_stop, which it starts in the same
\* poll; the concurrent tasks resident in the slab are never polled again.
ForcedStopAbandons ==
    forced =>
        /\ ev.op # "poll_ref"
        /\ ~dropped =>
              /\ state = "Stopping" /\ pc \in {"close", "idle", "done"}
              /\ pc = "idle" => cache_mut.kind = "stop" /\ cache_mut.started

\* on_stop completed after a forced stop while a concurrent handler is
\* still unfinished in the slab
ForcedStopAbandonsWitness ==
    forced /\ pc = "done" /\ ~dropped /\ ~SlabIsEmpty(cache_ref)

\* C9 -- the request of Addr::stop resolves Ok only after the driver was
\* dropped, by the confirmation sent in Drop; a driver that ended normally
\* was dropped after on_stop completed, so no confirmation exists while
\* on_stop or a handler is still running.
StopConfirmedAfterDrop ==
    /\ \A r \in Stops : sreq[r].st = "Ok" => notify[r] = "sent"
    /\ \A r \in Stops : notify[r] = "sent" =>
          /\ dropped /\ pc \in {"done", "panicked"}
          /\ cache_mut = NoTask /\ SlabIsEmpty(cache_ref)

\* a stop request resolved Ok after on_stop completed
StopConfirmedAfterDropWitness ==
    \E r \in Stops : sreq[r].st = "Ok" /\ pc = "done"

\* C10 (as stated) -- once a request of Addr::stop has resolved, the
\* message of a later send or wait is never dispatched to a handler.
SendFailsAfterStopResolved ==
    ev.op \in {"rx_ref", "rx_mut"} => ~ev.late

\* C10 (amended) -- once a request of Addr::stop has resolved to Ok or to
\* the Closed error, the mailbox is closed and no later send or wait
\* enqueues a message, so none is dispatched.
SendFailsAfterStopConfirmed ==
    /\ ev.op = "send" => \A r \in Stops : sreq[r].st \notin {"Ok", "Closed"}
    /\ (\E r \in Stops : sreq[r].st \in {"Ok", "Closed"}) => act_rx.closed

\* a send failed on the closed mailbox after a stop request resolved Ok
SendFailsAfterStopConfirmedWitness ==
    ev.op = "send_closed" /\ \E r \in Stops : sreq[r].st = "Ok"

\* the stop request r is the one whose StateChange the driver processed last
LastProcessed(r) ==
    /\ Processed(r)
    /\ \A q \in Stops : Processed(q) => sreq[q].id <= sreq[r].id

\* C11 -- when one driver processed several StateChange messages, the only
\* confirm slot that is ever signalled is the one of the StateChange
\* processed last, it is signalled once the driver is dropped, and the slot
\* of every StateChange processed earlier was dropped unfulfilled.
ConfirmOnlyLast ==
    /\ Cardinality({r \in Stops : notify[r] = "sent"}) <= 1
    /\ \A r \in Stops : notify[r] = "sent" => LastProcessed(r)
    /\ \A r \in Stops : Processed(r) /\ ~LastProcessed(r) => notify[r] = "dropped"
    /\ dropped => \A r \in Stops : LastProcessed(r) => notify[r] = "sent"

\* two StateChange messages were processed and the driver was dropped: the
\* later one is confirmed, the earlier one is not
ConfirmOnlyLastWitness ==
    /\ dropped
    /\ \E r, q \in Stops :
          /\ Processed(r) /\ Processed(q) /\ sreq[q].id < sreq[r].id
          /\ notify[r] = "sent" /\ notify[q] = "dropped"

\* the driver returned Pending and nothing has woken it since
Sleeping == pc = "idle" /\ ~woken /\ ~dropped

\* every handler in flight was polled and so holds a waker of the driver
HandlersHoldWaker ==
    /\ \A k \in 1..Len(cache_ref.entries) :
          SlabContains(cache_ref, k) => cache_ref.entries[k].started
    /\ SlabIsEmpty(cache_ref) => cache_mut.started

\* after the last strong Addr is dropped (and no forced stop was processed)
\* the driver is in Stopping only with no concurrent and no
\* exclusive handler in flight; and it never sleeps with nothing left to
\* wake it: whenever it returned Pending, a handler (or on_start, on_stop)
\* is in flight and holds its waker, so once the handlers in flight
\* complete the driver goes on to on_stop and ends.
StopAfterAddrDropped ==
    /\ (~addrAlive /\ ~forced /\ ~dropped /\ state = "Stopping") =>
          /\ SlabIsEmpty(cache_ref)
          /\ cache_mut.kind \in {"none", "stop"}
    /\ (~addrAlive /\ ~forced /\ Sleeping) =>
          /\ have_cache
          /\ HandlersHoldWaker

\* C12 -- under the fair schedule: the invariant above holds and, once the
\* last strong Addr is dropped, the driver eventually ends (on_stop returned
\* Ready, or a panic unwound it).
StopAfterAddrDroppedEnds ==
    /\ []StopAfterAddrDropped
    /\ ~addrAlive ~> (pc \in {"done", "panicked"})

\* with no stop requested, the driver saw the mailbox closed after the last
\* Addr was dropped and went to Stopping after a handler had completed
StopAfterAddrDroppedWitness ==
    /\ ~addrAlive /\ ev.op = "rx_none" /\ state = "Stopping"
    /\ completed # {}
    /\ \A r \in Stops : sreq[r].st = "none"

\* the polls of the delayed messages and of the streams
TimedOps == {"fut_pending", "fut_none", "fut_ref", "fut_mut",
             "str_pending", "str_none", "str_ref", "str_mut"}

\* C13 (as stated) -- when on_stop is built after the last strong Addr was
\* dropped (no stop was requested through an Addr), no delayed message
\* scheduled before the drop and no stream item that arrived before the
\* drop is left undispatched.
ScheduledDrainedBeforeOnStop ==
    (/\ ev.op = "install_stop" /\ ~addrAlive
     /\ \A r \in Stops : sreq[r].st = "none") =>
        /\ \A j \in 1..Len(future_cache) :
              future_cache[j].pre => future_cache[j].st = "cancelled"
        /\ \A j \in 1..Len(stream_cache) :
              stream_cache[j].pre => stream_cache[j].st # "avail"

\* C13 (amended) -- delayed messages and streams are polled only while the
\* actor state is Running; seeing the mailbox closed after the last strong
\* Addr was dropped sets the actor state to StopGraceful, and a running
\* driver never returns to Running, so what was not dispatched by then is
\* never dispatched, before on_stop or after.
SourcesOnlyWhileRunning ==
    /\ [](ev.op \in TimedOps => act_state = "Running")
    /\ [](ev.op = "rx_none" => act_state = "StopGraceful")
    /\ [][(state # "Starting" /\ act_state # "Running") => act_state' # "Running"]_vars

\* on_stop is in the slot after the last strong Addr was dropped, and a
\* delayed message scheduled before the drop, whose sleep has elapsed, is
\* still in the cache
SourcesOnlyWhileRunningWitness ==
    /\ cache_mut.kind = "stop" /\ ~addrAlive
    /\ \A r \in Stops : sreq[r].st = "none"
    /\ \E j \in 1..Len(future_cache) :
          future_cache[j].pre /\ future_cache[j].st = "elapsed"

\* the reply slot of the message n of a send or wait: the handler sends the
\* reply when it completes; a message or handler that goes with the driver
\* drops the slot
ReplySlot(n) ==
    IF n \in completed THEN "sent" ELSE IF dropped THEN "dropped" ELSE "held"

ReplyAtMostOnce ==
    /\ [](rq.out \in {"-", "panic"} \cup Resolved)
    /\ [][rq.out # "-" => rq'.out = rq.out]_vars
    /\ [][rq.slot = "sent" => rq'.slot = "sent"]_vars
    /\ [](rq.out = "Ok" => rq.slot = "sent")
    /\ [](rq.out = "Closed" => rq.slot = "dropped")
    /\ [](rq.slot = "sent" => rq.out \in {"-", "Ok", "panic"})

\* the handler replied, the driver went away with the sender, and the
\* request resolved Ok
ReplyAtMostOnceWitness ==
    rq.out = "Ok" /\ rq.slot = "sent" /\ act_rx.closed

\* C16 -- SendTimeout is reported only by a request still in its Request
\* state whose enqueue was pending when the send timeout had elapsed; when
\* the enqueue completes in the poll that finds the timeout elapsed, the
\* request goes on to Response; a request in Response never reports
\* SendTimeout.
SendTimeoutOnlyWhileSending ==
    /\ rq.out = "SendTimeout" =>
          /\ rq.st = "Request" /\ rq.fut = "pending" /\ rq.arrived = -1
          /\ rq.timeout.at >= 0 /\ rq.timeout.at <= rq.now
    /\ rq.late => rq.st = "Response" /\ rq.out # "SendTimeout"
    /\ rq.st = "Response" => rq.out # "SendTimeout"

\* the enqueue completed in a poll that found the send timeout elapsed, and
\* the request later resolved Ok
SendTimeoutOnlyWhileSendingWitness ==
    rq.late /\ rq.out = "Ok"

\* C17 -- ReceiveTimeout is reported only by a request in Response with a
\* response timeout configured and elapsed and its reply slot not
\* fulfilled; no poll in Response returns Pending once that timeout has
\* elapsed; a fulfilled slot wins over an elapsed timeout; a request with
\* no response timeout never reports ReceiveTimeout.
ReceiveTimeoutOnlyIfConfigured ==
    /\ rq.out = "ReceiveTimeout" =>
          /\ rq.st = "Response" /\ rq.timeout_response # NoSleep
          /\ rq.timeout_response.at >= 0 /\ rq.timeout_response.at <= rq.now
          /\ rq.slot \in {"queued", "handler"}
    /\ ~rq.missed
    /\ rq.timeout_response = NoSleep => rq.out # "ReceiveTimeout"

\* the handler had not replied when the response timeout elapsed
ReceiveTimeoutOnlyIfConfiguredWitness ==
    rq.out = "ReceiveTimeout" /\ rq.slot = "handler"

\* C18 (as stated) -- a request reports ReceiveTimeout only when at least
\* the configured duration has passed since it moved from Request to
\* Response.
ResponseTimeoutFromArrival ==
    rq.out = "ReceiveTimeout" => rq.now - rq.arrived >= rq.timeout_response.dur

\* C19 (as stated) -- timeout() or timeout_response() called on a request
\* that was polled never re-arms a timeout.
ReconfigureAfterPollPanics ==
    ~rq.rearm

\* C20 -- a weak recipient's request first polled when no strong Addr
\* exists resolves to Closed at once, in its Request state, with nothing
\* enqueued and no panic, also while the mailbox is open; first polled
\* while a strong Addr exists, it fails with Closed in its Request state
\* only on a closed mailbox, and otherwise delivers like an Addr's request.
WeakClosedWithoutAddr ==
    /\ (rq.weak /\ rq.gone1) =>
          /\ rq.out = "Closed" /\ rq.st = "Request"
          /\ rq.arrived = -1 /\ rq.slot = "dropped"
    /\ (rq.weak /\ rq.polled /\ ~rq.gone1 /\ rq.st = "Request" /\ rq.out = "Closed") =>
          act_rx.closed
    /\ (rq.weak /\ rq.polled /\ ~rq.gone1 /\ rq.st = "Request" /\ rq.out = "-") =>
          rq.fut = "pending"

\* every strong Addr was dropped, the driver still runs with an open
\* mailbox, and the weak recipient's request resolved to Closed
WeakClosedWithoutAddrWitness ==
    /\ rq.weak /\ rq.gone1 /\ rq.out = "Closed"
    /\ ~act_rx.closed /\ Len(act_rx.buf) < ChanCap

\* C21 -- the phase only moves Starting -> Running -> Stopping: a step that
\* changes it goes from Starting to Running, and is the poll of on_start
\* that returned Ready, or goes from Running to Stopping; no step returns to
\* an earlier phase.
PhaseForward ==
    /\ [][state' # state =>
            \/ /\ state = "Starting" /\ state' = "Running"
               /\ ev'.op = "poll_start" /\ cache_mut.kind = "start" /\ cache_mut' = NoTask
            \/ state = "Running" /\ state' = "Stopping"]_vars
    /\ [](state = "Starting" => cache_mut.kind \in {"none", "start"})

\* the driver went through the three phases and ended
PhaseForwardWitness ==
    state = "Stopping" /\ pc = "done" /\ completed # {}

\* the steps that poll a handler future or a message source
DispatchOps == SourceOps \cup {"poll_ref", "drain_stale", "poll_mut", "excl_blocked"}

\* C22 -- while the driver is in Starting nothing is dispatched: no message
\* source and no handler is polled, the slab is empty and the slot holds at
\* most on_start, whatever was enqueued or scheduled meanwhile; the poll of
\* on_start that returns Ready goes on with the drain step of a Running
\* cycle in the same poll.
NothingBeforeOnStart ==
    /\ state = "Starting" =>
          /\ ev.op \notin DispatchOps
          /\ dispatched = <<>> /\ completed = {}
          /\ SlabIsEmpty(cache_ref) /\ cache_mut.kind \in {"none", "start"}
          /\ pc \in {"idle", "start", "panicked"}
    /\ (ev.op = "poll_start" /\ state = "Running") => pc = "drain"

\* on_start is pending after it scheduled a delayed message whose sleep has
\* elapsed, and a message waits in the mailbox
NothingBeforeOnStartWitness ==
    /\ state = "Starting" /\ cache_mut.started /\ pc = "idle"
    /\ act_rx.buf # <<>>
    /\ \E j \in 1..Len(future_cache) : future_cache[j].st = "elapsed"

\* the steps that admit a concurrent message
AdmitOps == {"rx_ref", "fut_ref", "str_ref"}

\* the concurrent handlers in flight: resident tasks polled at least once
InFlight ==
    {k \in 1..Len(cache_ref.entries) :
        SlabContains(cache_ref, k) /\ cache_ref.entries[k].started}

Unpolled ==
    {k \in 1..Len(cache_ref.entries) :
        SlabContains(cache_ref, k) /\ ~cache_ref.entries[k].started}

\* the driver returned Pending from a Running cycle and neither an exclusive
\* task nor a stop intervened
QuietPending ==
    /\ pc = "idle" /\ state = "Running"
    /\ cache_mut = NoTask /\ act_state = "Running" /\ ~act_rx.closed

\* C24 (as stated) -- a concurrent message admitted during a driver poll has
\* its handler polled at least once before that poll returns Pending, unless
\* an exclusive task or a stop intervenes.
AdmittedPolledInSamePoll == QuietPending => Unpolled = {}

\* C24 (amended) -- admission sets extra_poll and enqueues the key, and the
\* driver makes one more Running pass before it returns Pending; a handler
\* still not polled when the poll returns has its key in the wake queue and
\* the driver has woken itself (the drain loop stopped at its bound), so a
\* following poll polls it.
AdmittedPolledOrRewoken ==
    /\ ev.op \in AdmitOps => extra_poll /\ queue # <<>>
    /\ (pc = "idle" /\ state = "Running") =>
          /\ cache_mut = NoTask => ~extra_poll
          /\ \A k \in Unpolled :
                woken /\ \E q \in 1..Len(queue) : queue[q] = k

\* the drain loop stopped at its bound before it reached an admitted handler
AdmittedPolledOrRewokenWitness ==
    QuietPending /\ Unpolled # {} /\ woken /\ completed # {}

\* the polls of a delayed message
FutOps == {"fut_pending", "fut_none", "fut_ref", "fut_mut"}

\* the tasks a step added: to the slab or to the exclusive slot
AddedRef == SlabLen(cache_ref') = SlabLen(cache_ref) + 1 /\ cache_mut' = cache_mut

AddedMut == cache_mut = NoTask /\ cache_mut' # NoTask /\ cache_ref' = cache_ref

AddedNone == cache_ref' = cache_ref /\ cache_mut' = cache_mut

\* C25 -- a delayed message is polled only while the actor state is Running.
\* The poll of a cancelled one removes it from the delayed cache and
\* dispatches nothing; the poll of one not cancelled leaves it in place
\* before its delay has elapsed, and after that removes it and dispatches it,
\* as one task; while the actor keeps running an elapsed message does not
\* stay in the cache for ever.
DelayedCancelledOrOnce ==
    /\ [][ev'.op \in FutOps =>
            /\ pc = "future" /\ i < Len(future_cache)
            /\ act_state = "Running" /\ state = "Running"
            /\ LET e == future_cache[i + 1] IN
                 CASE e.st = "cancelled" ->
                        /\ ev'.op = "fut_none" /\ AddedNone
                        /\ future_cache' = SwapRemove(future_cache, i + 1)
                   [] e.st = "waiting" ->
                        /\ ev'.op = "fut_pending" /\ AddedNone
                        /\ future_cache' = future_cache
                   [] e.st = "elapsed" ->
                        /\ ev'.op = (IF e.kind = "Ref" THEN "fut_ref" ELSE "fut_mut")
                        /\ IF e.kind = "Ref" THEN AddedRef ELSE AddedMut
                        /\ future_cache' = SwapRemove(future_cache, i + 1)]_vars
    /\ (\E j \in 1..Len(future_cache) : future_cache[j].st = "elapsed")
         ~> \/ \A j \in 1..Len(future_cache) : future_cache[j].st # "elapsed"
            \/ act_state # "Running" \/ pc \in {"done", "panicked"} \/ dropped

\* a cancelled delayed message was just removed while another one, not
\* cancelled, had been dispatched
DelayedCancelledOrOnceWitness ==
    /\ ev.op = "fut_none"
    /\ \E k \in 1..Len(cache_ref.entries) :
          SlabContains(cache_ref, k) /\ cache_ref.entries[k].id = 0

\* the polls of a stream
StrOps == {"str_pending", "str_none", "str_ref", "str_mut"}

\* the cancelled entries of a cache
Cancelled(cache) == {j \in 1..Len(cache) : cache[j].st = "cancelled"}

\* C26 -- the driver's next poll of a cancelled stream (or interval) removes
\* it from the stream cache and dispatches nothing, whether or not an item
\* was waiting; a cancelled entry leaves the cache in no other way while the
\* driver lives and never yields again, so the stream is not polled after
\* its removal.
CancelledStreamRemoved ==
    /\ [][ev'.op \in StrOps =>
            /\ pc = "stream" /\ i < Len(stream_cache)
            /\ act_state = "Running" /\ state = "Running"
            /\ LET e == stream_cache[i + 1] IN
                 CASE e.st = "cancelled" ->
                        /\ ev'.op = "str_none" /\ AddedNone
                        /\ stream_cache' = SwapRemove(stream_cache, i + 1)
                   [] e.st = "idle" ->
                        /\ ev'.op = "str_pending" /\ AddedNone
                        /\ stream_cache' = stream_cache
                   [] e.st = "avail" ->
                        /\ ev'.op = (IF e.kind = "Ref" THEN "str_ref" ELSE "str_mut")
                        /\ IF e.kind = "Ref" THEN AddedRef ELSE AddedMut
                        /\ Len(stream_cache') = Len(stream_cache)]_vars
    /\ [][Cardinality(Cancelled(stream_cache')) < Cardinality(Cancelled(stream_cache)) =>
            \/ ev'.op = "str_none"
               /\ Cardinality(Cancelled(stream_cache')) =
                    Cardinality(Cancelled(stream_cache)) - 1
            \/ stream_cache' = <<>> /\ (dropped' \/ pc' \in {"done", "panicked"})]_vars

\* the driver just removed a cancelled stream; another stream is still
\* attached
CancelledStreamRemovedWitness ==
    /\ ev.op = "str_none" /\ stream_cache # <<>>
    /\ ninputs >= 2

\* Context::address: Addr::from_recv(rx), a strong sender made from the
\* receiver unless the channel is closed
address == IF act_rx.closed THEN "None" ELSE "Some"

\* every message sent was dispatched and every handler dispatched completed
AllHandled ==
    /\ Len(dispatched) = nsent
    /\ \A k \in 1..Len(dispatched) : dispatched[k] \in completed \cup StopIds

NoSourceAfterStop ==
    ev.op \in FutOps \cup StrOps => ~act_rx.closed

\* an exclusive handler is installed and was never polled
ExclusiveWaits == cache_mut.kind = "Mut" /\ ~cache_mut.started

\* C29 -- an exclusive task installed while concurrent tasks are in flight
\* is eventually polled. While it waits the driver returns Pending and leaves
\* the tasks and the wake queue alone, so the concurrent tasks are driven by
\* their wakers; the driver never sleeps on an exclusive task that is not
\* yet polled once the slab is empty: the poll in which the slab empties
\* goes on to the exclusive task. Under the fair schedule the exclusive task
\* is polled (or a forced stop, a panic or the drop of the driver abandons
\* it).
ExclusiveEventuallyPolled ==
    /\ []((pc = "idle" /\ state = "Running" /\ ExclusiveWaits) =>
            ~SlabIsEmpty(cache_ref))
    /\ [][ev'.op = "excl_blocked" =>
            /\ ~SlabIsEmpty(cache_ref) /\ pc' = "idle"
            /\ cache_mut' = cache_mut /\ cache_ref' = cache_ref /\ queue' = queue]_vars
    /\ [][(pc = "excl" /\ ExclusiveWaits /\ SlabIsEmpty(cache_ref) /\ vars' # vars) =>
            ev'.op \in {"poll_mut", "panic"}]_vars
    /\ ExclusiveWaits ~> (~ExclusiveWaits \/ dropped \/ pc \in {"done", "panicked"})

\* the last concurrent task has just completed in the drain loop while an
\* exclusive handler was waiting: the same poll is about to poll it
ExclusiveEventuallyPolledWitness ==
    /\ ev.op = "poll_ref" /\ pc = "excl" /\ ExclusiveWaits
    /\ SlabIsEmpty(cache_ref) /\ completed # {}

\* the poll of the popped index: queue index popped, and for a live slot
\* that task alone is polled, every other slab entry is left as it was, and
\* the task is removed exactly when the step completed it
PopPollsOnlyPopped ==
    ev'.op \in {"poll_ref", "drain_stale"} =>
        /\ pc = "drain" /\ queue # <<>> /\ queue' = Tail(queue)
        /\ (ev'.op = "poll_ref") = SlabContains(cache_ref, Head(queue))
        /\ Len(cache_ref'.entries) = Len(cache_ref.entries)
        /\ \A k \in 1..Len(cache_ref.entries) :
              k # Head(queue) => cache_ref'.entries[k] = cache_ref.entries[k]
        /\ ev'.op = "poll_ref" =>
              \/ /\ SlabContains(cache_ref', Head(queue))
                 /\ cache_ref'.entries[Head(queue)].started
                 /\ completed' = completed
              \/ /\ ~SlabContains(cache_ref', Head(queue))
                 /\ completed' = Done(cache_ref.entries[Head(queue)].id)

\* what a discarded index leaves alone: the slab, the exclusive slot, the
\* caches, the mailbox, the actor state and everything outside the driver
StaleFrame ==
    /\ UNCHANGED <<state, act_state, act_rx, cache_mut, cache_ref, future_cache,
                   stream_cache, drop_notify, extra_poll, dropped, ninputs, dispatched,
                   completed>>
    /\ UNCHANGED callerVars

\* C30 (as stated) -- in the drain step the driver polls exactly the live
\* tasks whose indices it pops, removes a task only when its own poll
\* returned Ready, and discards a popped index whose slot is vacant without
\* changing the slab or any other state: in particular the driver is not
\* woken by it.
DrainStaleChangesNothing ==
    [][/\ PopPollsOnlyPopped
       /\ ev'.op = "drain_stale" => StaleFrame /\ woken' = woken]_vars

\* C30 (amended) -- as above, except that a discarded index counts toward
\* the bound of the drain loop: it changes nothing but the loop's count, and
\* when the count reaches the bound the loop ends and the driver wakes
\* itself.
DrainStaleCounts ==
    [][/\ PopPollsOnlyPopped
       /\ ev'.op = "drain_stale" =>
             /\ StaleFrame
             /\ IF DrainBound(polled + 1)
                THEN woken' /\ pc' = "excl"
                ELSE woken' = woken /\ pc' = "drain" /\ polled' = polled + 1]_vars

\* a stale index was just discarded with a task resident, it was the last
\* the bound allowed and the driver has woken itself
DrainStaleCountsWitness ==
    /\ ev.op = "drain_stale" /\ ~SlabIsEmpty(cache_ref)
    /\ pc = "excl" /\ woken

\* the steps of the drain loop that pop an index
DrainOps == {"poll_ref", "drain_stale"}

\* a Running pass begins: len is the number of resident tasks, nothing popped
PassBegins ==
    (pc' = "drain" /\ pc # "drain") => len' = SlabLen(cache_ref') /\ polled' = 0

\* C31 (as stated) -- in one Running pass the driver pops at most len
\* indices, len being the number of resident tasks at the start of the pass,
\* also when len is 0.
PopsAtMostLen ==
    [][/\ PassBegins
       /\ ev'.op \in DrainOps => polled + 1 <= len]_vars

\* C31 (amended) -- when len is at least 1 the pass pops at most len
\* indices, live, stale or repeated, and the len-th pop ends the drain loop;
\* when len is 0 the bound never applies and the loop pops until the wake
\* queue is empty.
PopsAtMostLenIfTasks ==
    [][/\ PassBegins
       /\ ev'.op \in DrainOps =>
             /\ len > 0 => polled + 1 <= len
             /\ IF polled + 1 = len THEN pc' = "excl"
                ELSE pc' = "drain" /\ len' = len /\ polled' = polled + 1]_vars

\* a pass that began with an empty slab has popped two indices and goes on
PopsAtMostLenIfTasksWitness ==
    ev.op = "drain_stale" /\ pc = "drain" /\ len = 0 /\ polled = 2

\* the wake queue holds the index of a resident task
LiveQueued == \E q \in 1..Len(queue) : SlabContains(cache_ref, queue[q])

\* C32 -- the drain step that stops at the pop bound wakes the driver, and
\* a Running driver never sleeps on a wake queue that is not empty; under
\* the fair schedule the indices left in the queue are popped by later
\* polls: the queue empties, unless the driver goes to Stopping, is dropped
\* or a handler panics.
BoundStopRewakes ==
    /\ [][(ev'.op \in DrainOps /\ DrainBound(polled + 1)) => woken' /\ pc' = "excl"]_vars
    /\ []((pc = "idle" /\ state = "Running" /\ queue # <<>>) => woken)
    /\ (queue # <<>>) ~> (queue = <<>> \/ state = "Stopping" \/ dropped)

\* the drain loop has just stopped at its bound, the driver is woken and
\* the index of a resident task is still queued
BoundStopRewakesWitness ==
    ev.op \in DrainOps /\ pc = "excl" /\ woken /\ LiveQueued

\* C39 -- the actor state is monotone: once it was set to StopGraceful by
\* Context::stop(), by a StateChange or by the mailbox seen closed (each
\* closes the mailbox too), no step sets it back to Running.
ActStateMonotone ==
    [][(act_rx.closed /\ act_state = "StopGraceful") => act_state' # "Running"]_vars

\* the hook futures of the lifecycle
Hooks == {"start", "stop"}

\* C40 -- on_start is started at most once and on_stop at most once: a hook
\* is created only into the empty exclusive slot, on_start only in Starting
\* and on_stop only in Stopping, it stays there until its poll returns Ready,
\* and that Ready leaves Starting for good (on_start) or ends the driver
\* (on_stop). on_stop is therefore never started before on_start has
\* completed, and never while an exclusive message handler is resident; the
\* driver returns Ready only from the poll in which on_stop completed.
HooksOnceInOrder ==
    /\ [][ev'.op = "install_start" =>
            state = "Starting" /\ cache_mut = NoTask /\ cache_mut'.kind = "start"]_vars
    /\ [][ev'.op = "install_stop" =>
            state = "Stopping" /\ cache_mut = NoTask /\ cache_mut'.kind = "stop"]_vars
    /\ [][(cache_mut.kind = "start" /\ cache_mut'.kind # "start" /\ ~dropped') =>
            ev'.op = "poll_start" /\ cache_mut' = NoTask /\ state' # "Starting"]_vars
    /\ [][(cache_mut.kind = "stop" /\ cache_mut'.kind # "stop" /\ ~dropped') =>
            ev'.op = "poll_stop" /\ cache_mut' = NoTask /\ pc' = "done"]_vars
    /\ [][state # "Starting" => state' # "Starting"]_vars
    /\ [][pc = "done" => pc' = "done" /\ cache_mut'.kind # "stop"]_vars
    /\ [][(pc' = "done" /\ pc # "done") =>
            ev'.op = "poll_stop" /\ cache_mut.kind = "stop" /\ cache_mut' = NoTask]_vars
    /\ [](state = "Stopping" => cache_mut.kind \in {"none", "stop"})
    /\ [](cache_mut.kind = "stop" => state = "Stopping")
    /\ [](cache_mut.kind = "start" => state = "Starting")

\* on_stop completed after an exclusive handler had run, and the driver
\* returned Ready
HooksOnceInOrderWitness ==
    /\ pc = "done" /\ ev.op = "poll_stop" /\ ~dropped
    /\ \E k \in 1..Len(dispatched) : dispatched[k] \in completed

\* ---- the Running driver with attached streams ------------------------------
\* the largest number of streams attached when the actor starts running
MaxStreams == 3

\* a stream attached by Context::stream in on_start: of concurrent or of
\* exclusive messages; waiting for an item, always ready, or ended
AttachedStreams ==
    [kind : {"Ref", "Mut"}, st : {"idle", "ready", "cancelled"}, pre : {FALSE}]

\* on_start attached some streams and returned Ready: the actor is Running
StreamInit ==
    /\ state = "Running"
    /\ act_state = "Running"
    /\ act_rx = [buf |-> <<>>, closed |-> FALSE]
    /\ queue = <<>>
    /\ cache_mut = NoTask
    /\ cache_ref = EmptySlab
    /\ future_cache = <<>>
    /\ \E n \in 1..MaxStreams : stream_cache \in [1..n -> AttachedStreams]
    /\ drop_notify = 0
    /\ extra_poll = FALSE
    /\ pc = "idle"
    /\ len = 0 /\ polled = 0 /\ i = 0 /\ extra_wake = FALSE
    /\ woken = TRUE
    /\ dropped = FALSE
    /\ addrAlive = TRUE
    /\ notify = [r \in Stops |-> "none"]
    /\ sreq = [r \in Stops |-> NoReq]
    /\ ninputs = 0
    /\ nsent = 0
    /\ dispatched = <<>>
    /\ completed = {}
    /\ ev = Ev("init", 0)
    /\ rq = NoRequest
    /\ wk = NoWaker

\* the handler polled in this step makes no Context call
NoContextCall ==
    /\ act_state' = act_state /\ act_rx' = act_rx /\ ninputs' = ninputs
    /\ future_cache' = future_cache /\ stream_cache' = stream_cache

\* a handler of a stream item that resolves the first time it is polled
ResolvesAtOnce == DrainPop /\ NoContextCall /\ SlabLen(cache_ref') < SlabLen(cache_ref)

\* the steps of the driver's poll while the actor is Running and its
\* messages come from streams
StreamDriver ==
    \/ Poll
    \/ DrainEnd
    \/ ResolvesAtOnce
    \/ ExclPoll /\ NoContextCall
    \/ ExclNone
    \/ FutureEnd
    \/ StreamPoll
    \/ StreamEnd
    \/ ChannelPending

StreamNext ==
    \/ StreamDriver
    \/ WakeMut
    \/ \E j \in 1..MaxStreams : StreamItem(j)
    \/ \E j \in 1..MaxStreams : CancelStream(j)

StreamSpec == StreamInit /\ [][StreamNext]_vars

\* the executor polls a woken driver and a poll runs on (WF); an exclusive
\* handler is woken again and completes when polled again and again (SF)
StreamFairSpec ==
    /\ StreamSpec
    /\ WF_vars(StreamDriver)
    /\ SF_vars(ExclPoll /\ NoContextCall /\ cache_mut' = NoTask)
    /\ WF_vars(WakeMut)

\* C33 -- within one Running pass a stream gives at most 16 consecutive
\* items: the item that is the 16th of a stream sets the yield flag and the
\* loop goes on with the next stream, any earlier item keeps the loop at the
\* same stream; no poll of a stream wakes the driver, and the end of the
\* stream step requests the self-wake, once, exactly when the flag is set.
StreamYieldsAfterCap ==
    /\ [][ev'.op = "str_ref" =>
            /\ polled + 1 <= YieldCap
            /\ IF polled + 1 = YieldCap
               THEN i' = i + 1 /\ polled' = 0 /\ extra_wake' /\ pc' = "stream"
               ELSE i' = i /\ polled' = polled + 1 /\ extra_wake' = extra_wake]_vars
    /\ [][ev'.op \in StrOps => woken' = woken]_vars
    /\ [][ev'.op = "str_end" => woken' = (woken \/ extra_wake) /\ pc' = "channel"]_vars
    /\ []((pc = "stream" => polled < YieldCap) /\ (extra_wake => pc = "stream"))

\* a stream gave its 16th item, the loop is at the next stream with the
\* flag set and no wake requested yet
StreamYieldsAfterCapWitness ==
    /\ ev.op = "str_ref" /\ extra_wake /\ ~woken /\ pc = "stream"
    /\ i >= 1 /\ i < Len(stream_cache) /\ polled = 0
    /\ SlabLen(cache_ref) >= YieldCap

\* a stream whose next item is always ready is attached
AlwaysReady == \E j \in 1..Len(stream_cache) : stream_cache[j].st = "ready"

\* C34 -- no stream starves the other sources: while a stream that is ready
\* on every poll stays attached and gives its items again and again (and
\* handlers complete), the stream step still reaches its end, having gone
\* through every stream, and the mailbox is still polled, again and again.
NoStreamStarves ==
    ([]AlwaysReady /\ []<>(ev.op \in {"str_ref", "str_mut"})) =>
        ([]<>(ev.op = "str_end") /\ []<>(ev.op = "rx_pending"))

\* C35 -- no livelock: every poll of the driver returns to the executor
\* after finitely many passes of poll_running, and a pass that was forced to
\* yield after 16 items of a stream is followed by that return.
EveryPollReturns ==
    /\ (pc # "idle") ~> (pc = "idle")
    /\ extra_wake ~> (pc = "idle")

\* C36 -- a stream step that reaches its end polls every stream that is in
\* the cache and is not removed: the step polls the positions in order, so
\* when a stream that ended is removed from a position that is not the last,
\* the stream that swap_remove moved into this position is the next polled.
StreamStepPollsAll ==
    [][(ev'.op = "str_none" /\ i + 1 < Len(stream_cache)) =>
         /\ stream_cache'[i + 1] = stream_cache[Len(stream_cache)]
         /\ i' = i]_vars

\* ---- the wake queue between the driver and a waker on another thread -------
\* mutation: the waker forwards the wake before it enqueues the index
ForwardFirst == <<"forward", "enqueue">>

\* ActorWaker::wake_by_ref: "queue.enqueue(*idx); waker.wake_by_ref();"
\* (wake: "queue.enqueue(idx); waker.wake();"): the statements in order
WakeOrder == <<"enqueue", "forward">>

\* mutation: the try-lock guard lives until the end of the loop body
GuardKept == "driver"

\* the lock after "this.queue.try_lock().and_then(|mut l| l.pop_front())":
\* the closure took the guard by value and dropped it when it returned
GuardAfterPop == "free"

\* Lock::try_lock gives None / Lock::lock waits: the lock is held
Held == wk.lock # "free"

\* idx is in the wake queue
InQueue(idx) == \E q \in 1..Len(queue) : queue[q] = idx

\* the waker after a statement of its call: the next statement or the return
WakerAdvance(w) ==
    IF w.n = Len(WakeOrder)
    THEN [NoWaker EXCEPT !.lock = w.lock, !.task = w.task]
    ELSE [w EXCEPT !.n = @ + 1, !.at = "call"]

\* on_start returned Ready without attaching anything: the actor is Running
LockInit ==
    /\ state = "Running"
    /\ act_state = "Running"
    /\ act_rx = [buf |-> <<>>, closed |-> FALSE]
    /\ queue = <<>>
    /\ cache_mut = NoTask
    /\ cache_ref = EmptySlab
    /\ future_cache = <<>>
    /\ stream_cache = <<>>
    /\ drop_notify = 0
    /\ extra_poll = FALSE
    /\ pc = "idle"
    /\ len = 0 /\ polled = 0 /\ i = 0 /\ extra_wake = FALSE
    /\ woken = TRUE
    /\ dropped = FALSE
    /\ addrAlive = TRUE
    /\ notify = [r \in Stops |-> "none"]
    /\ sreq = [r \in Stops |-> NoReq]
    /\ ninputs = 0
    /\ nsent = 0
    /\ dispatched = <<>>
    /\ completed = {}
    /\ ev = Ev("init", 0)
    /\ rq = NoRequest
    /\ wk = NoWaker

\* what a step of the waker's thread leaves alone
wakerFrame ==
    UNCHANGED <<state, act_state, act_rx, cache_mut, cache_ref, future_cache, stream_cache,
                drop_notify, extra_poll, pc, len, polled, i, extra_wake, dropped,
                addrAlive, notify, sreq, ninputs, nsent, dispatched, completed, rq>>

\* another thread calls wake / wake_by_ref of the ActorWaker bound to slab
\* key idx, of a task in flight that was polled there
WakerCall(idx) ==
    /\ wk.n = 0 /\ ~dropped /\ Len(queue) < MaxQueue
    /\ SlabContains(cache_ref, idx) /\ cache_ref.entries[idx].started
    /\ wk' = [wk EXCEPT !.n = 1, !.at = "call", !.idx = idx, !.enq = FALSE]
    /\ ev' = Ev("wk_call", 0)
    /\ UNCHANGED <<queue, woken>>
    /\ wakerFrame

\* WakeQueue::enqueue, "self.lock()": the waker waits for the lock and takes it
WakerLock ==
    /\ wk.n > 0 /\ WakeOrder[wk.n] = "enqueue" /\ wk.at = "call" /\ ~Held
    /\ wk' = [wk EXCEPT !.lock = "waker", !.at = "locked"]
    /\ ev' = Ev("wk_lock", 0)
    /\ UNCHANGED <<queue, woken>>
    /\ wakerFrame

\* WakeQueue::enqueue, ".push_back(idx)"
WakerPush ==
    /\ wk.at = "locked"
    /\ queue' = Append(queue, wk.idx)
    /\ wk' = [wk EXCEPT !.at = "pushed", !.enq = TRUE]
    /\ ev' = Ev("wk_push", 0)
    /\ UNCHANGED woken
    /\ wakerFrame

\* WakeQueue::enqueue returns: the guard is dropped
WakerUnlock ==
    /\ wk.at = "pushed"
    /\ wk' = WakerAdvance([wk EXCEPT !.lock = "free"])
    /\ ev' = Ev("wk_unlock", 0)
    /\ UNCHANGED <<queue, woken>>
    /\ wakerFrame

\* "waker.wake_by_ref()" / "waker.wake()": the wake goes to the outer waker
WakerForward ==
    /\ wk.n > 0 /\ WakeOrder[wk.n] = "forward" /\ wk.at = "call"
    /\ woken' = TRUE
    /\ wk' = WakerAdvance(wk)
    /\ ev' = Ev("wk_forward", 0)
    /\ UNCHANGED queue
    /\ wakerFrame

\* poll_running, drain loop: try_lock gave None, the loop ends without a pop
DrainSkip ==
    /\ pc = "drain" /\ Held
    /\ pc' = "excl"
    /\ Locals0
    /\ ev' = Ev("drain_skip", 0)
    /\ UNCHANGED <<state, act_state, act_rx, queue, cache_mut, cache_ref, future_cache,
                   stream_cache, drop_notify, extra_poll, woken, dropped, ninputs,
                   dispatched, completed>>
    /\ UNCHANGED callerVars

\* poll_running, drain loop: try_lock gave the guard and pop_front the index
\* of a live task; the task is polled next
LockPop ==
    /\ pc = "drain" /\ ~Held /\ queue # <<>> /\ SlabContains(cache_ref, Head(queue))
    /\ queue' = Tail(queue)
    /\ wk' = [wk EXCEPT !.task = Head(queue), !.lock = GuardAfterPop]
    /\ pc' = "task"
    /\ ev' = Ev("pop", 0)
    /\ UNCHANGED <<state, act_state, act_rx, cache_mut, cache_ref, future_cache, stream_cache,
                   drop_notify, extra_poll, len, polled, i, extra_wake, woken, dropped,
                   addrAlive, notify, sreq, ninputs, nsent, dispatched, completed, rq>>

\* poll_running, drain loop: the popped task is polled with its ActorWaker;
\* self: the task calls cx.waker().wake_by_ref() during this poll, which
\* enqueues its index (waiting for the lock) and wakes the outer waker
TaskPoll ==
    /\ pc = "task"
    /\ \E out \in Outcomes, self \in BOOLEAN :
        LET idx == wk.task
            task == cache_ref.entries[idx] IN
          /\ self => ~Held
          /\ queue' = IF self THEN Append(queue, idx) ELSE queue
          /\ cache_ref' = IF out = "Ready" THEN SlabRemove(cache_ref, idx)
                          ELSE [cache_ref EXCEPT !.entries[idx].started = TRUE]
          /\ completed' = IF out = "Ready" THEN Done(task.id) ELSE completed
          /\ ev' = Ev(IF self THEN "poll_self" ELSE "poll_ref", task.id)
          /\ IF DrainBound(polled + 1)
             THEN pc' = "excl" /\ woken' = TRUE /\ Locals0
             ELSE /\ pc' = "drain" /\ woken' = (woken \/ self) /\ polled' = polled + 1
                  /\ UNCHANGED <<len, i, extra_wake>>
    /\ wk' = [wk EXCEPT !.task = 0]
    /\ UNCHANGED <<state, act_state, act_rx, cache_mut, future_cache, stream_cache,
                   drop_notify, extra_poll, dropped, addrAlive, notify, sreq, ninputs,
                   nsent, dispatched, rq>>

\* the steps of the driver's poll with the lock of the wake queue in view
LockDriver ==
    \/ Poll
    \/ DrainEnd /\ ~Held
    \/ DrainSkip
    \/ DrainPop /\ ~Held /\ ~SlabContains(cache_ref, Head(queue))
    \/ LockPop
    \/ TaskPoll
    \/ ExclNone
    \/ FutureEnd
    \/ StreamEnd
    \/ ChannelRef /\ ~Held
    \/ ChannelPending

\* the statements of a waker call that was begun
WakerStep == WakerLock \/ WakerPush \/ WakerUnlock \/ WakerForward

LockNext ==
    \/ LockDriver
    \/ WakerStep
    \/ \E idx \in 1..MaxInputs : WakerCall(idx)
    \/ Send("Ref")

LockSpec == LockInit /\ [][LockNext]_vars

\* the executor polls a woken driver and a poll runs on; the thread of the
\* waker runs on to the end of its call
LockFairSpec == LockSpec /\ WF_vars(LockDriver) /\ WF_vars(WakerStep)

\* the index of a task in flight is in the wake queue
LiveInQueue(idx) == InQueue(idx) /\ SlabContains(cache_ref, idx)

\* C37 -- no lost wake-up: a waker forwards the wake only after it has
\* enqueued its index; a driver that finds the lock of the wake queue held
\* pops nothing and leaves the drain for the rest of the pass without
\* waiting; the waker that held the lock then forwards its wake, and every
\* index of a task in flight that is in the queue is eventually popped (or
\* the task is gone).
NoLostWakeup ==
    /\ [][ev'.op = "wk_forward" => wk.enq /\ ~Held /\ woken']_vars
    /\ [][(pc = "drain" /\ Held) =>
            \/ ev'.op \in {"wk_push", "wk_unlock"} /\ pc' = pc /\ polled' = polled
            \/ ev'.op = "drain_skip" /\ pc' = "excl" /\ queue' = queue /\ wk' = wk]_vars
    /\ [](wk.lock = "waker" => wk.n > 0 /\ WakeOrder[wk.n] = "enqueue")
    /\ (wk.n > 0) ~> woken
    /\ \A idx \in 1..MaxInputs :
          LiveInQueue(idx) ~> (wk.task = idx \/ ~LiveInQueue(idx))

\* the driver skipped the drain because a waker held the lock and had not
\* pushed its index yet
NoLostWakeupWitness ==
    /\ ev.op = "drain_skip" /\ pc = "excl" /\ wk.lock = "waker" /\ wk.at = "locked"
    /\ SlabContains(cache_ref, wk.idx)

\* C38 -- the driver never holds the lock of the wake queue while it polls
\* a task: a task that invokes its own waker during its poll enqueues its
\* index (at most waiting for a waker of another thread to release the
\* lock) and wakes the driver, the poll ends, and the index is popped again:
\* by the same pass when the pop bound is not reached, else by a later poll.
NoLockAcrossPoll ==
    /\ [](pc = "task" => wk.lock # "driver" /\ SlabContains(cache_ref, wk.task))
    /\ [][ev'.op = "poll_self" =>
            /\ ~Held /\ wk'.lock = "free"
            /\ queue' = Append(queue, wk.task) /\ woken'
            /\ pc' = IF polled + 1 = len THEN "excl" ELSE "drain"]_vars
    /\ (pc = "task") ~> (pc # "task")
    /\ \A idx \in 1..MaxInputs :
          (ev.op = "poll_self" /\ LiveInQueue(idx)) ~> (wk.task = idx \/ ~LiveInQueue(idx))

\* a task woke itself during its poll, which returned Pending: its index is
\* the last of the queue, the driver is woken and the drain loop goes on
NoLockAcrossPollWitness ==
    /\ ev.op = "poll_self" /\ pc = "drain" /\ woken /\ ~Held
    /\ queue # <<>> /\ SlabContains(cache_ref, queue[Len(queue)])
====
